---- MODULE Spec2Model ----
(***************************************************************************)
(* A model of jalloc.hpp (Jallocator): the block header, the bitmap, the     *)
(* size-class table, the tiny pools, the pool manager, the thread cache,     *)
(* the large-block cache and the coordinator (allocate, deallocate,          *)
(* reallocate, callocate, cleanup).                                          *)
(*                                                                           *)
(* Build modelled: x86_64, Linux, no AVX2/AVX-512 (the scalar paths).        *)
(*                                                                           *)
(* A 64-bit word is a triple <<a, b, c>>: a = bits 48..63, b = bits 24..47,   *)
(* c = bits 0..23.  Addresses are naturals below 2^31.                        *)
(***************************************************************************)
EXTENDS Integers, Sequences, FiniteSets, TLC

(* ------------------------------------------------------------------------ *)
(* Program constants                                                        *)
(* ------------------------------------------------------------------------ *)
CACHE_LINE_SIZE == 64
PG_SIZE == 4096
TINY_LARGE_THRESHOLD == 64
SMALL_LARGE_THRESHOLD == 256
ALIGNMENT == CACHE_LINE_SIZE
MAX_CACHE_SIZE == 67108864
MIN_CACHE_BLOCK == 4096
MAX_CACHE_BLOCK == 16777216
CACHE_SIZE == 32
SIZE_CLASSES == 32
TINY_CLASSES == 8
MAX_POOLS == 8
BUCKET_SIZE == 4
NUM_BUCKETS == 8
MIN_RETURN_SIZE == 65536
bits_per_word == 64
words_per_bitmap == PG_SIZE \div (CACHE_LINE_SIZE * 8)
\* sizeof(block_header): four 8-byte fields, alignas(ALIGNMENT)
SIZEOF_HEADER == ALIGNMENT
\* sizeof(bitmap): words_per_bitmap atomic 64-bit words
SIZEOF_BITMAP == words_per_bitmap * 8
NULL == 0
\* ~static_cast<size_t>(0), the "no free block" sentinel of find_free_block
NPOS == -1
\* the class value of a large (mapped) block
LARGE_CLASS == 255

(* ------------------------------------------------------------------------ *)
(* 64-bit words                                                             *)
(* ------------------------------------------------------------------------ *)
B24 == 2^24
B16 == 2^16

U(n) == <<0, n \div B24, n % B24>>
Val(u) == u[2] * B24 + u[3]
FitsVal(u) == u[1] = 0 /\ u[2] < 128

U64Lt(x, y) ==
    \/ x[1] < y[1]
    \/ x[1] = y[1] /\ x[2] < y[2]
    \/ x[1] = y[1] /\ x[2] = y[2] /\ x[3] < y[3]
U64Le(x, y) == x = y \/ U64Lt(x, y)

\* x + y modulo 2^64
U64Add(x, y) ==
    LET c == x[3] + y[3]
        b == x[2] + y[2] + (c \div B24)
        a == x[1] + y[1] + (b \div B24)
    IN  <<a % B16, b % B24, c % B24>>

\* x & ~(al - 1) for a power of two al <= 2^24
U64AlignDown(x, al) == <<x[1], x[2], x[3] - (x[3] % al)>>

RECURSIVE BitAnd(_, _)
BitAnd(x, y) ==
    IF x = 0 \/ y = 0 THEN 0
    ELSE (IF x % 2 = 1 /\ y % 2 = 1 THEN 1 ELSE 0) + 2 * BitAnd(x \div 2, y \div 2)

RECURSIVE BitOr(_, _)
BitOr(x, y) ==
    IF x = 0 THEN y
    ELSE IF y = 0 THEN x
    ELSE (IF x % 2 = 1 \/ y % 2 = 1 THEN 1 ELSE 0) + 2 * BitOr(x \div 2, y \div 2)

\* floor(log2(x)) for x >= 1: 63 - __builtin_clzll(x), 31 - __builtin_clz(x)
RECURSIVE Log2(_)
Log2(x) == IF x <= 1 THEN 0 ELSE 1 + Log2(x \div 2)

MinOf(S) == CHOOSE x \in S : \A y \in S : x <= y

\* Safety flags, as the top 16 bits (48..63) of the data word
SIZE_MASK == <<0, B24 - 1, B24 - 1>>
FREE_FLAG_A == 2^15
MMAP_FLAG_A == 2^14
COALESCED_FLAG_A == 2^13
MAGIC_MASK_A == 15 * 2^12
MAGIC_VALUE_A == 10 * 2^12
CLASS_MASK_A == 255
HEADER_MAGIC == <<57005, 12513042, 3430008>>
POW47 == <<0, 2^23, 0>>
ZERO64 == <<0, 0, 0>>

(* ------------------------------------------------------------------------ *)
(* Size classes                                                             *)
(* ------------------------------------------------------------------------ *)
get_alignment_for_size(sz) ==
    IF U64Le(sz, U(CACHE_LINE_SIZE)) THEN CACHE_LINE_SIZE
    ELSE IF U64Le(U(PG_SIZE), sz) THEN PG_SIZE
    ELSE 2 ^ (Log2(Val(sz) - 1) + 1)

\* 1ULL << k as a 64-bit word
U64Pow2(k) ==
    IF k < 24 THEN <<0, 0, 2^k>>
    ELSE IF k < 48 THEN <<0, 2^(k - 24), 0>>
    ELSE <<2^(k - 48), 0, 0>>

\* static_cast<uint16_t>
Trunc16(u) == u[3] % B16

\* (size + alignment - 1) & ~(alignment - 1)
aligned_slot(sz, alignment) == U64AlignDown(U64Add(sz, U(alignment - 1)), alignment)

\* the four uint16_t fields of a class of the given size and slot; slot - size
\* is truncated to 16 bits (slot >= size here)
size_class_fields(sz, slot) ==
    [size |-> Trunc16(sz), slot_size |-> Trunc16(slot),
     blocks |-> (IF U64Lt(U(PG_SIZE), slot) THEN 0 ELSE PG_SIZE \div Val(slot)) % B16,
     slack |-> (Trunc16(slot) + B16 - Trunc16(sz)) % B16]

size_class_entry(i) ==
    size_class_fields(U64Pow2(i + 3),
                      aligned_slot(U64Pow2(i + 3), get_alignment_for_size(U64Pow2(i + 3))))

size_classes == [i \in 0..(SIZE_CLASSES - 1) |-> size_class_entry(i)]

(* ------------------------------------------------------------------------ *)
(* Block header: [data, magic, prev_physical, next_physical]                *)
(* ------------------------------------------------------------------------ *)
ZeroHeader ==
    [data |-> ZERO64, magic |-> ZERO64, prev_physical |-> NULL, next_physical |-> NULL]

HasFlag(a, flag) == (a \div flag) % 2 = 1
WithFlag(a, flag, on) ==
    (IF HasFlag(a, flag) THEN a - flag ELSE a) + (IF on THEN flag ELSE 0)

encode(h, sz, cls, free) ==
    [h EXCEPT !.data =
        <<BitOr(BitOr(cls % 256, IF free THEN FREE_FLAG_A ELSE 0), MAGIC_VALUE_A),
          sz[2], sz[3]>>]

init(sz, cls, free, prev, next) ==
    IF U64Lt(POW47, sz)
    THEN ZeroHeader
    ELSE encode([data |-> ZERO64, magic |-> HEADER_MAGIC,
                 prev_physical |-> prev, next_physical |-> next], sz, cls, free)

size(h) == <<0, h.data[2], h.data[3]>>
size_class(h) == BitAnd(h.data[1], CLASS_MASK_A)
is_free(h) == HasFlag(h.data[1], FREE_FLAG_A)
is_memory_mapped(h) == HasFlag(h.data[1], MMAP_FLAG_A)
is_coalesced(h) == HasFlag(h.data[1], COALESCED_FLAG_A)

is_valid(h) ==
    IF h.magic = HEADER_MAGIC /\ BitAnd(h.data[1], MAGIC_MASK_A) = MAGIC_VALUE_A
    THEN U64Le(size(h), POW47) /\ (size_class(h) < SIZE_CLASSES \/ size_class(h) = LARGE_CLASS)
    ELSE FALSE

set_free(h, free) ==
    [h EXCEPT !.data = <<WithFlag(h.data[1], FREE_FLAG_A, free), h.data[2], h.data[3]>>]
set_memory_mapped(h, on) ==
    [h EXCEPT !.data = <<WithFlag(h.data[1], MMAP_FLAG_A, on), h.data[2], h.data[3]>>]
set_coalesced(h, on) ==
    [h EXCEPT !.data = <<WithFlag(h.data[1], COALESCED_FLAG_A, on), h.data[2], h.data[3]>>]

is_base_aligned(ptr) == ptr % ALIGNMENT = 0

(* ------------------------------------------------------------------------ *)
(* Bitmap: the set of cleared (allocated) bit indices; bit i of the 512 is   *)
(* 1 (free) iff i is not in the set.                                         *)
(* ------------------------------------------------------------------------ *)
NewBitmap == {}
WordFreeBits(cleared, i) ==
    {b \in 0..(bits_per_word - 1) : (i * bits_per_word + b) \notin cleared}

\* the compare-exchange that clears the bit, and the index returned
claim_block(cleared, block_offset) ==
    [index |-> block_offset, bitmap |-> cleared \cup {block_offset}]

\* count_trailing_zeros of the first word that is not 0
scan_words(cleared, words) ==
    IF words = {}
    THEN [index |-> NPOS, bitmap |-> cleared]
    ELSE claim_block(cleared,
                     MinOf(words) * bits_per_word + MinOf(WordFreeBits(cleared, MinOf(words))))

\* bitmap::find_free_block: returns [index, bitmap]
find_free_block(cleared, sz) ==
    scan_words(cleared,
               {i \in 0..(words_per_bitmap - 1) :
                   /\ BitAnd(i, (get_alignment_for_size(sz) \div bits_per_word) - 1) = 0
                   /\ WordFreeBits(cleared, i) # {}})

mark_free(cleared, index) == cleared \ {index}

is_completely_free(cleared) == cleared = {}

(* ------------------------------------------------------------------------ *)
(* The environment: the heap that operator new draws pool pages from, and    *)
(* the address range mmap places regions in.  The heap arena is mapped       *)
(* memory whether or not a page of it is owned by a pool; an access outside  *)
(* the arena and outside every live mapping faults.                          *)
(* ------------------------------------------------------------------------ *)
MaxHeapPages == 2
MaxMaps == 2
HeapBase == 16 * PG_SIZE
MmapBase == 2^28
MapStride == 2^25
MAP_FAILED == -1

HeapPages == {HeapBase + k * PG_SIZE : k \in 0..(MaxHeapPages - 1)}
MapSlots == {MmapBase + j * MapStride : j \in 0..(MaxMaps - 1)}

InHeapArena(addr) ==
    HeapBase <= addr /\ addr + SIZEOF_HEADER <= HeapBase + MaxHeapPages * PG_SIZE

Put(f, k, v) == [x \in (DOMAIN f) \cup {k} |-> IF x = k THEN v ELSE f[x]]
Drop(f, K) == [x \in (DOMAIN f) \ K |-> f[x]]

(* ------------------------------------------------------------------------ *)
(* The allocator state `s` of one thread:                                    *)
(*   tiny_pools_   [0..7 -> pool base or NULL]                               *)
(*   pools         [0..31 -> sequence of [p, used_blocks]]  (pool_manager_;  *)
(*                 pool_count[c] is the length of pools[c])                   *)
(*   thread_cache_ [0..31 -> sequence of user pointers]  (count = length)    *)
(*   large_cache   [buckets, total_cached]                                   *)
(*   bitmaps       [base of an existing pool -> its bitmap]                  *)
(*   mem           [address -> block header written there]; other memory is  *)
(*                 zero                                                      *)
(*   maps          the live mmap regions [base, len]                         *)
(*   clock         the time-stamp counter                                    *)
(*   crashed       the process has faulted or terminated                     *)
(* Operations that return a value return [s, ptr] or [s, ok].                *)
(* ------------------------------------------------------------------------ *)
Crash(s) == [s EXCEPT !.crashed = TRUE]

Mapped(s, addr) ==
    \/ InHeapArena(addr)
    \/ \E m \in s.maps : m.base <= addr /\ addr + SIZEOF_HEADER <= m.base + m.len

HeaderAt(s, addr) == IF addr \in DOMAIN s.mem THEN s.mem[addr] ELSE ZeroHeader

WriteHeader(s, addr, h) ==
    IF Mapped(s, addr) THEN [s EXCEPT !.mem = Put(@, addr, h)] ELSE Crash(s)

ZeroRange(mem, base, len) ==
    Drop(mem, {a \in DOMAIN mem : base <= a /\ a < base + len})

FreePages(s) == HeapPages \ DOMAIN s.bitmaps
FreeSlots(s) == MapSlots \ {m.base : m \in s.maps}

\* new (std::align_val_t{PG_SIZE}) pool() / tiny_pool(): the page is zeroed
\* and its bitmap set to all ones
NewPool(s, page) ==
    [s EXCEPT !.bitmaps = Put(@, page, NewBitmap),
              !.mem = ZeroRange(@, page, PG_SIZE)]
DeletePool(s, page) == [s EXCEPT !.bitmaps = Drop(@, {page})]

Ret(s, ptr) == [s |-> s, ptr |-> IF s.crashed THEN NULL ELSE ptr]

(* ------------------------------------------------------------------------ *)
(* Thread cache                                                             *)
(* ------------------------------------------------------------------------ *)
\* a cache that hands out its oldest pointer
thread_cache_get_oldest(s, cls) ==
    IF Len(s.thread_cache_[cls]) > 0
    THEN [s |-> [s EXCEPT !.thread_cache_[cls] = Tail(@)], ptr |-> Head(s.thread_cache_[cls])]
    ELSE [s |-> s, ptr |-> NULL]

thread_cache_get(s, cls) ==
    IF Len(s.thread_cache_[cls]) > 0
    THEN [s |-> [s EXCEPT !.thread_cache_[cls] = SubSeq(@, 1, Len(@) - 1)],
          ptr |-> s.thread_cache_[cls][Len(s.thread_cache_[cls])]]
    ELSE [s |-> s, ptr |-> NULL]

thread_cache_put(s, ptr, cls) ==
    IF Len(s.thread_cache_[cls]) < CACHE_SIZE
    THEN [s |-> [s EXCEPT !.thread_cache_[cls] = Append(@, ptr)], ok |-> TRUE]
    ELSE [s |-> s, ok |-> FALSE]

thread_cache_clear(s) ==
    [s EXCEPT !.thread_cache_ = [c \in 0..(SIZE_CLASSES - 1) |-> <<>>]]

(* ------------------------------------------------------------------------ *)
(* Pools                                                                    *)
(* ------------------------------------------------------------------------ *)
\* memory + index * sc.slot_size, or nullptr
slot_address(base, sc, r) ==
    [ptr |-> IF r.index # NPOS THEN base + SIZEOF_BITMAP + r.index * sc.slot_size ELSE NULL,
     bitmap |-> r.bitmap]

\* pool::allocate: returns [ptr, bitmap]
pool_allocate(cleared, base, sc) ==
    slot_address(base, sc, find_free_block(cleared, U(sc.size)))

\* pool::deallocate on the pool at `base`: a zero slot_size divides by zero,
\* an index outside the bitmap's words writes outside the pool
pool_deallocate(s, base, ptr, sc) ==
    IF \/ sc.slot_size = 0
       \/ ptr < base + SIZEOF_BITMAP
       \/ (ptr - (base + SIZEOF_BITMAP)) \div sc.slot_size >= words_per_bitmap * bits_per_word
    THEN Crash(s)
    ELSE [s EXCEPT !.bitmaps[base] =
                       mark_free(@, (ptr - (base + SIZEOF_BITMAP)) \div sc.slot_size)]

\* (size + sizeof(block_header) + ALIGNMENT - 1) & ~(ALIGNMENT - 1)
tiny_slot_size(cls) ==
    ((((cls + 1) * 8) + SIZEOF_HEADER + ALIGNMENT - 1) \div ALIGNMENT) * ALIGNMENT

\* the block of a tiny pool at the index found, or nullptr
tiny_block(base, slot_size, r) ==
    [ptr |-> IF /\ r.index # NPOS
                /\ r.index < (PG_SIZE - SIZEOF_BITMAP) \div slot_size
                /\ r.index * slot_size + slot_size <= PG_SIZE - SIZEOF_BITMAP
             THEN base + SIZEOF_BITMAP + r.index * slot_size
             ELSE NULL,
     bitmap |-> r.bitmap]

\* tiny_pool::allocate_tiny: returns [ptr, bitmap]
allocate_tiny(cleared, base, cls) ==
    tiny_block(base, tiny_slot_size(cls), find_free_block(cleared, U((cls + 1) * 8)))

\* tiny_pool::deallocate_tiny on the pool at `base`
deallocate_tiny(s, base, ptr, cls) ==
    IF /\ ptr >= base + SIZEOF_BITMAP
       /\ ((ptr - (base + SIZEOF_BITMAP)) \div tiny_slot_size(cls)) * tiny_slot_size(cls)
              < PG_SIZE - SIZEOF_BITMAP
    THEN [s EXCEPT !.bitmaps[base] =
                       mark_free(@, (ptr - (base + SIZEOF_BITMAP)) \div tiny_slot_size(cls))]
    ELSE s

(* ------------------------------------------------------------------------ *)
(* Pool manager                                                             *)
(* ------------------------------------------------------------------------ *)
\* pools[cls][i].p->allocate(sc)
pool_allocate_at(s, cls, i) ==
    pool_allocate(s.bitmaps[s.pools[cls][i].p], s.pools[cls][i].p, size_classes[cls])

\* the block r taken from pool i of the class: ++used_blocks
take_from_pool(s, cls, i, r) ==
    [s |-> [s EXCEPT !.bitmaps[s.pools[cls][i].p] = r.bitmap,
                     !.pools[cls][i].used_blocks = @ + 1],
     ptr |-> r.ptr]

\* the first block r of the new pool at `page` (s1: the pool constructed)
open_pool(s1, cls, page, r) ==
    IF r.ptr # NULL
    THEN [s |-> [s1 EXCEPT !.bitmaps[page] = r.bitmap,
                           !.pools[cls] = Append(@, [p |-> page, used_blocks |-> 1])],
          ptr |-> r.ptr]
    ELSE [s |-> DeletePool(s1, page), ptr |-> NULL]

\* new (std::align_val_t{PG_SIZE}) pool(): `page` is what operator new
\* returns; NULL stands for std::bad_alloc, which terminates the noexcept caller
grow_fleet(s, cls, page) ==
    IF page = NULL
    THEN [s |-> Crash(s), ptr |-> NULL]
    ELSE open_pool(NewPool(s, page), cls, page, pool_allocate(NewBitmap, page, size_classes[cls]))

\* hits: the pools of the class whose allocate(sc) yields a block
scan_pools(s, cls, page, hits) ==
    IF hits # {}
    THEN take_from_pool(s, cls, MinOf(hits), pool_allocate_at(s, cls, MinOf(hits)))
    ELSE IF Len(s.pools[cls]) < MAX_POOLS
    THEN grow_fleet(s, cls, page)
    ELSE [s |-> s, ptr |-> NULL]

\* pool_manager::allocate
pool_manager_allocate(s, cls, page) ==
    scan_pools(s, cls, page,
               {i \in 1..Len(s.pools[cls]) : pool_allocate_at(s, cls, i).ptr # NULL})

\* --entry.used_blocks == 0: delete the pool and move the last entry into its
\* place (s1: the block's bit set free)
release_block(s1, cls, i) ==
    IF s1.crashed THEN s1
    ELSE IF s1.pools[cls][i].used_blocks - 1 = 0
    THEN [DeletePool(s1, s1.pools[cls][i].p) EXCEPT
             !.pools[cls] = SubSeq([s1.pools[cls] EXCEPT ![i] = s1.pools[cls][Len(s1.pools[cls])]],
                                   1, Len(s1.pools[cls]) - 1)]
    ELSE [s1 EXCEPT !.pools[cls][i].used_blocks = @ - 1]

\* owners: the pools of the class whose page holds ptr
give_to_owner(s, ptr, cls, owners) ==
    IF owners = {} THEN s
    ELSE release_block(pool_deallocate(s, s.pools[cls][MinOf(owners)].p, ptr, size_classes[cls]),
                       cls, MinOf(owners))

\* pool_manager::deallocate
pool_manager_deallocate(s, ptr, cls) ==
    IF ptr - (ptr % PG_SIZE) = 0 THEN s
    ELSE IF cls >= SIZE_CLASSES THEN s
    ELSE give_to_owner(s, ptr, cls,
                       {i \in 1..Len(s.pools[cls]) :
                           ptr >= s.pools[cls][i].p /\ ptr < s.pools[cls][i].p + PG_SIZE})

(* ------------------------------------------------------------------------ *)
(* OS primitives                                                            *)
(* ------------------------------------------------------------------------ *)
\* MAP_MEMORY(len): `slot` is the address the OS picks, MAP_FAILED when it
\* refuses; a fresh mapping is zero
MapMemory(s, len, slot) ==
    IF slot = MAP_FAILED \/ ~FitsVal(len) \/ Val(len) > MapStride
    THEN [s |-> s, ptr |-> MAP_FAILED]
    ELSE [s |-> [s EXCEPT !.maps = @ \cup {[base |-> slot, len |-> Val(len)]},
                          !.mem = ZeroRange(@, slot, Val(len))],
          ptr |-> slot]

\* the mapping m loses its first len bytes
unmap_front(s, m, len) ==
    [s EXCEPT !.maps = (@ \ {m}) \cup
        (IF len < m.len THEN {[base |-> m.base + len, len |-> m.len - len]} ELSE {})]

\* UNMAP_MEMORY(base, len); munmap of memory that malloc owns breaks the heap
UnmapMemory(s, base, len) ==
    IF \E m \in s.maps : m.base = base
    THEN unmap_front(s, CHOOSE m \in s.maps : m.base = base, len)
    ELSE IF InHeapArena(base) THEN Crash(s)
    ELSE s

\* total <= PG_SIZE ? PG_SIZE : (total + PG_SIZE - 1) & ~(PG_SIZE - 1)
page_round(total_size) ==
    IF U64Le(total_size, U(PG_SIZE)) THEN U(PG_SIZE)
    ELSE U64AlignDown(U64Add(total_size, U(PG_SIZE - 1)), PG_SIZE)

UnmapLength(sz) == page_round(U64Add(sz, U(SIZEOF_HEADER)))

\* the length as a number the model's address range holds
LenVal(len) == IF FitsVal(len) THEN Val(len) ELSE 2^30

(* ------------------------------------------------------------------------ *)
(* Large-block cache                                                        *)
(* ------------------------------------------------------------------------ *)
EmptyEntry == [ptr |-> NULL, size |-> 0, last_use |-> 0]
EmptyLargeCache ==
    [buckets |-> [i \in 0..(NUM_BUCKETS - 1) |->
                    [count |-> 0, entries |-> [j \in 0..(BUCKET_SIZE - 1) |-> EmptyEntry]]],
     total_cached |-> 0]

InCacheRange(sz) == U64Le(U(MIN_CACHE_BLOCK), sz) /\ U64Le(sz, U(MAX_CACHE_BLOCK))

\* (63 - __builtin_clzll(size > MIN_CACHE_BLOCK ? size - 1 : MIN_CACHE_BLOCK)) - 11
get_bucket_index(n) ==
    Log2(IF n > MIN_CACHE_BLOCK THEN n - 1 ELSE MIN_CACHE_BLOCK) - 11

\* a cache that takes a block of any size for a request
any_ratio(a, b) == TRUE

\* entry.size <= size * MAX_SIZE_RATIO, with MAX_SIZE_RATIO = 1.25
WithinRatio(a, b) == 4 * a <= 5 * b

\* entry i of the bucket leaves the cache
take_cached(s, b, i) ==
    [s |-> [s EXCEPT !.large_cache.buckets[b].entries[i].ptr = NULL,
                     !.large_cache.buckets[b].count = @ - 1,
                     !.large_cache.total_cached = @ - s.large_cache.buckets[b].entries[i].size],
     ptr |-> s.large_cache.buckets[b].entries[i].ptr]

\* hits: the entries among the first `count` that fit the request
first_cached(s, b, hits) ==
    IF hits = {} THEN [s |-> s, ptr |-> NULL] ELSE take_cached(s, b, MinOf(hits))

scan_bucket(s, n, b) ==
    IF b >= NUM_BUCKETS THEN [s |-> s, ptr |-> NULL]
    ELSE first_cached(s, b,
             {i \in 0..(s.large_cache.buckets[b].count - 1) :
                 /\ i < BUCKET_SIZE
                 /\ s.large_cache.buckets[b].entries[i].ptr # NULL
                 /\ s.large_cache.buckets[b].entries[i].size >= n
                 /\ WithinRatio(s.large_cache.buckets[b].entries[i].size, n)})

\* large_block_cache_t::get_cached_block
get_cached_block(s, sz) ==
    IF ~InCacheRange(sz) THEN [s |-> s, ptr |-> NULL]
    ELSE scan_bucket(s, Val(sz), get_bucket_index(Val(sz)))

\* current_total + size > MAX_CACHE_SIZE in size_t arithmetic; a negative
\* total_cached stands for the wrapped value 2^64 + total_cached
OverBudget(total, n) == total + n < 0 \/ total + n > MAX_CACHE_SIZE

\* entry i of bucket b takes the block; `appended`: it is entries[count]
store_cached(s, ptr, n, b, i, appended) ==
    [s |-> [s EXCEPT !.large_cache.buckets[b].entries[i] =
                         [ptr |-> ptr, size |-> n, last_use |-> s.clock + 1],
                     !.large_cache.buckets[b].count = IF appended THEN @ + 1 ELSE @,
                     !.large_cache.total_cached =
                         IF appended THEN @ + n
                         ELSE @ - s.large_cache.buckets[b].entries[i].size + n,
                     !.clock = @ + 1],
     ok |-> TRUE]

\* a bucket that appends whether or not it is full
append_always(s, ptr, n, b, bucket) == store_cached(s, ptr, n, b, bucket.count, TRUE)

\* without AVX2 the scan for the oldest entry is compiled out: oldest_idx = 0
fill_bucket(s, ptr, n, b, bucket) ==
    IF bucket.count < BUCKET_SIZE /\ bucket.entries[bucket.count].ptr = NULL
    THEN store_cached(s, ptr, n, b, bucket.count, TRUE)
    ELSE IF bucket.entries[0].ptr # NULL /\ WithinRatio(n, bucket.entries[0].size)
    THEN store_cached(s, ptr, n, b, 0, FALSE)
    ELSE [s |-> s, ok |-> FALSE]

admit_block(s, ptr, n, b) ==
    IF b >= NUM_BUCKETS THEN [s |-> s, ok |-> FALSE]
    ELSE IF OverBudget(s.large_cache.total_cached, n) THEN [s |-> s, ok |-> FALSE]
    ELSE fill_bucket(s, ptr, n, b, s.large_cache.buckets[b])

\* large_block_cache_t::cache_block
cache_block(s, ptr, sz) ==
    IF ~InCacheRange(sz) THEN [s |-> s, ok |-> FALSE]
    ELSE admit_block(s, ptr, Val(sz), get_bucket_index(Val(sz)))

\* ptr1.exchange(nullptr) and the unmap of what it held
clear_entry(s, b, i, e) ==
    IF e.ptr = NULL THEN s
    ELSE UnmapMemory([s EXCEPT !.large_cache.buckets[b].entries[i].ptr = NULL],
                     e.ptr - SIZEOF_HEADER, LenVal(UnmapLength(U(e.size))))

RECURSIVE ClearEntries(_, _, _)
\* the entries 0..count-1 of bucket b, from entry i on
ClearEntries(s, b, i) ==
    IF i >= s.large_cache.buckets[b].count \/ i >= BUCKET_SIZE \/ s.crashed THEN s
    ELSE ClearEntries(clear_entry(s, b, i, s.large_cache.buckets[b].entries[i]), b, i + 1)

RECURSIVE ClearBuckets(_, _)
ClearBuckets(s, b) ==
    IF b >= NUM_BUCKETS \/ s.crashed THEN s
    ELSE ClearBuckets([ClearEntries(s, b, 0) EXCEPT !.large_cache.buckets[b].count = 0], b + 1)

reset_total(s) == IF s.crashed THEN s ELSE [s EXCEPT !.large_cache.total_cached = 0]

\* large_block_cache_t::clear
large_cache_clear(s) == reset_total(ClearBuckets(s, 0))

(* ------------------------------------------------------------------------ *)
(* Coordinator: allocate                                                    *)
(* ------------------------------------------------------------------------ *)
\* header->set_free(free) on the header at addr
SetFreeAt(s, addr, free) ==
    IF ~Mapped(s, addr) THEN Crash(s)
    ELSE WriteHeader(s, addr, set_free(HeaderAt(s, addr), free))

\* size == 0 || size > (1ULL << 47)
\* a size check that forgets the upper limit
zero_size_only(n) == n = ZERO64

invalid_size(n) == n = ZERO64 \/ U64Lt(POW47, n)

\* (size - 1) >> 3, as uint8_t
small_class(n) == ((Val(n) - 1) \div 8) % 256
\* 31 - __builtin_clz(size - 1)
medium_class(n) == Log2(Val(n) - 1)

\* the block r of the tiny pool: header->init(size, size_class, false)
tiny_return(s, pool, n, cls, r) ==
    IF r.ptr # NULL
    THEN Ret(WriteHeader([s EXCEPT !.bitmaps[pool] = r.bitmap], r.ptr,
                         init(n, cls, FALSE, NULL, NULL)),
             r.ptr + SIZEOF_HEADER)
    ELSE Ret([s EXCEPT !.bitmaps[pool] = r.bitmap], NULL)

\* allocate, tiny path, the part that uses the tiny pool of the class
tiny_take(s, n, cls) ==
    IF s.tiny_pools_[cls] = NULL THEN Ret(s, NULL)
    ELSE tiny_return(s, s.tiny_pools_[cls], n, cls,
                     allocate_tiny(s.bitmaps[s.tiny_pools_[cls]], s.tiny_pools_[cls], cls))

\* the recursive allocate(size) is made with init_mutex held: were it to
\* miss, it would lock init_mutex a second time
tiny_first_block(again) ==
    IF again.ptr # NULL THEN again ELSE Ret(Crash(again.s), NULL)

\* allocate, tiny path, under init_mutex.  `page` is what operator new
\* returns; NULL stands for std::bad_alloc, which is caught
tiny_grow(s, n, cls, page) ==
    IF s.tiny_pools_[cls] # NULL THEN Ret(s, NULL)
    ELSE IF page = NULL THEN Ret(s, NULL)
    ELSE tiny_first_block(tiny_take([NewPool(s, page) EXCEPT !.tiny_pools_[cls] = page], n, cls))

tiny_miss(first, n, cls, page) ==
    IF first.ptr # NULL \/ first.s.crashed THEN first
    ELSE tiny_grow(first.s, n, cls, page)

\* allocate, size <= TINY_LARGE_THRESHOLD
allocate_tiny_path(s, n, page) ==
    IF small_class(n) >= TINY_CLASSES THEN Ret(s, NULL)
    ELSE tiny_miss(tiny_take(s, n, small_class(n)), n, small_class(n), page)

\* new (ptr) block_header() and header->encode(size, size_class, false)
pool_block(r, n, cls) ==
    IF r.s.crashed THEN Ret(r.s, NULL)
    ELSE IF r.ptr # NULL
    THEN Ret(WriteHeader(r.s, r.ptr, encode(ZeroHeader, n, cls, FALSE)), r.ptr + SIZEOF_HEADER)
    ELSE Ret(r.s, NULL)

\* allocate_small / allocate_medium after the thread-cache probe missed
pool_take(s, n, cls, page) == pool_block(pool_manager_allocate(s, cls, page), n, cls)

\* the cached block c of allocate_small
small_cached(c) ==
    IF ~Mapped(c.s, c.ptr - SIZEOF_HEADER) THEN Ret(Crash(c.s), NULL)
    ELSE IF is_valid(HeaderAt(c.s, c.ptr - SIZEOF_HEADER))
    THEN Ret(SetFreeAt(c.s, c.ptr - SIZEOF_HEADER, FALSE), c.ptr)
    ELSE Ret(c.s, NULL)

small_probe(s, n, page, c) ==
    IF c.ptr # NULL THEN small_cached(c) ELSE pool_take(s, n, small_class(n), page)

allocate_small(s, n, page) == small_probe(s, n, page, thread_cache_get(s, small_class(n)))

\* a cached block handed out again: header->set_free(false)
reuse_cached(c) == Ret(SetFreeAt(c.s, c.ptr - SIZEOF_HEADER, FALSE), c.ptr)

medium_probe(s, n, cls, page, c) ==
    IF c.ptr # NULL THEN reuse_cached(c) ELSE pool_take(s, n, cls, page)

allocate_medium(s, n, cls, page) == medium_probe(s, n, cls, page, thread_cache_get(s, cls))

\* ((size + header_size + PG_SIZE - 1) >> 12) << 12
MapLength(n) == U64AlignDown(U64Add(n, U(SIZEOF_HEADER + PG_SIZE - 1)), PG_SIZE)

\* the mapping m: MAP_FAILED is not a null pointer, so the header is written
\* through it
large_mapped(m, n) ==
    IF m.ptr = NULL THEN Ret(m.s, NULL)
    ELSE Ret(WriteHeader(m.s, m.ptr,
                         set_memory_mapped(init(n, LARGE_CLASS, FALSE, NULL, NULL), TRUE)),
             m.ptr + SIZEOF_HEADER)

\* `slot` is what mmap returns
large_miss(s, n, slot) ==
    large_mapped(MapMemory(s, IF U64Le(n, U(PG_SIZE - SIZEOF_HEADER)) THEN U(PG_SIZE)
                              ELSE MapLength(n), slot),
                 n)

large_probe(s, n, slot, c) ==
    IF c.ptr # NULL THEN reuse_cached(c) ELSE large_miss(s, n, slot)

allocate_large(s, n, slot) == large_probe(s, n, slot, get_cached_block(s, n))

\* allocate, TINY_LARGE_THRESHOLD < size <= SMALL_LARGE_THRESHOLD
small_path(s, n, page, c) ==
    IF c.ptr # NULL THEN reuse_cached(c) ELSE allocate_small(s, n, page)

\* Jallocator::allocate
allocate(s, n, page, slot) ==
    IF invalid_size(n) THEN Ret(s, NULL)
    ELSE IF U64Le(n, U(TINY_LARGE_THRESHOLD)) THEN allocate_tiny_path(s, n, page)
    ELSE IF U64Le(U(PG_SIZE), n) THEN allocate_large(s, n, slot)
    ELSE IF U64Le(n, U(SMALL_LARGE_THRESHOLD))
    THEN small_path(s, n, page, thread_cache_get(s, small_class(n)))
    ELSE allocate_medium(s, n, medium_class(n), page)

(* ------------------------------------------------------------------------ *)
(* Coalescing and page return                                               *)
(* ------------------------------------------------------------------------ *)
\* the header at addr with one link replaced
SetPrevAt(s, addr, prev) ==
    IF ~Mapped(s, addr) THEN Crash(s)
    ELSE WriteHeader(s, addr, [HeaderAt(s, addr) EXCEPT !.prev_physical = prev])
SetNextAt(s, addr, next) ==
    IF ~Mapped(s, addr) THEN Crash(s)
    ELSE WriteHeader(s, addr, [HeaderAt(s, addr) EXCEPT !.next_physical = next])

\* size() + other->size() + sizeof(block_header)
combined_size(h, other) == U64Add(U64Add(size(h), size(other)), U(SIZEOF_HEADER))

\* encode(combined_size, size_class(), true); set_coalesced(true) at addr
EncodeCoalescedAt(s, addr, sz) ==
    IF ~Mapped(s, addr) THEN Crash(s)
    ELSE WriteHeader(s, addr,
             set_coalesced(encode(HeaderAt(s, addr), sz, size_class(HeaderAt(s, addr)), TRUE),
                           TRUE))

\* if (next_physical) next_physical->prev_physical = prev
link_back(s, next, prev) == IF next # NULL THEN SetPrevAt(s, next, prev) ELSE s

\* the free successor nx of the block at addr is folded into it
absorb_next(s, addr, nx) ==
    EncodeCoalescedAt(
        link_back(SetNextAt(s, addr, HeaderAt(s, nx).next_physical),
                  HeaderAt(s, nx).next_physical, addr),
        addr, combined_size(HeaderAt(s, addr), HeaderAt(s, nx)))

folds_next(s, addr) ==
    /\ HeaderAt(s, addr).next_physical # NULL
    /\ is_free(HeaderAt(s, HeaderAt(s, addr).next_physical))

\* a fold into the predecessor that leaves the successor's back link alone
absorb_prev_unlinked(s, addr, pv) ==
    EncodeCoalescedAt(SetNextAt(s, pv, HeaderAt(s, addr).next_physical),
                      pv, combined_size(HeaderAt(s, addr), HeaderAt(s, pv)))

\* the block at addr is folded into its free predecessor pv
absorb_prev(s, addr, pv) ==
    EncodeCoalescedAt(
        link_back(SetNextAt(s, pv, HeaderAt(s, addr).next_physical),
                  HeaderAt(s, addr).next_physical, pv),
        pv, combined_size(HeaderAt(s, addr), HeaderAt(s, pv)))

folds_prev(s, addr) ==
    /\ HeaderAt(s, addr).prev_physical # NULL
    /\ is_free(HeaderAt(s, HeaderAt(s, addr).prev_physical))

\* the second half of try_coalesce; `coalesced` is what the first half set
coalesce_prev(s, addr, coalesced) ==
    IF s.crashed THEN [s |-> s, ok |-> FALSE]
    ELSE IF folds_prev(s, addr)
    THEN [s |-> absorb_prev(s, addr, HeaderAt(s, addr).prev_physical), ok |-> TRUE]
    ELSE [s |-> s, ok |-> coalesced]

\* block_header::try_coalesce on the header at addr. returns [s, ok]
try_coalesce(s, addr) ==
    IF is_memory_mapped(HeaderAt(s, addr)) \/ size_class(HeaderAt(s, addr)) < TINY_CLASSES
    THEN [s |-> s, ok |-> FALSE]
    ELSE IF folds_next(s, addr)
    THEN coalesce_prev(absorb_next(s, addr, HeaderAt(s, addr).next_physical), addr, TRUE)
    ELSE coalesce_prev(s, addr, FALSE)

RECURSIVE ChainFaults(_, _, _)
\* the walk along next_physical from addr reads unmapped memory or never ends
ChainFaults(s, addr, seen) ==
    IF addr = NULL THEN FALSE
    ELSE IF addr \in seen \/ ~Mapped(s, addr) THEN TRUE
    ELSE ChainFaults(s, HeaderAt(s, addr).next_physical, seen \cup {addr})

RECURSIVE FreeSpace(_, _)
\* the sizes of the free blocks from addr on
FreeSpace(s, addr) ==
    IF addr = NULL THEN ZERO64
    ELSE U64Add(IF is_free(HeaderAt(s, addr)) THEN size(HeaderAt(s, addr)) ELSE ZERO64,
                FreeSpace(s, HeaderAt(s, addr).next_physical))

\* madvise(MADV_DONTNEED) on [from, to): the pages read as zero afterwards
AdviseDontNeed(s, from, to) ==
    [s EXCEPT !.mem = ZeroRange(@, from, to - from),
              !.bitmaps = [b \in DOMAIN @ |->
                             IF from <= b /\ b < to
                             THEN 0..(words_per_bitmap * bits_per_word - 1) ELSE @[b]]]

\* the whole pages inside the block that starts at block_start
return_pages(s, block_start, block_end) ==
    IF block_end - (block_end % PG_SIZE) > ((block_start + PG_SIZE - 1) \div PG_SIZE) * PG_SIZE
    THEN AdviseDontNeed(s, ((block_start + PG_SIZE - 1) \div PG_SIZE) * PG_SIZE,
                        block_end - (block_end % PG_SIZE))
    ELSE s

return_block(s, addr, h) ==
    IF is_free(h) /\ is_coalesced(h)
    THEN return_pages(s, addr + SIZEOF_HEADER, addr + SIZEOF_HEADER + LenVal(size(h)))
    ELSE s

RECURSIVE ReturnFrom(_, _, _)
\* the second walk of return_memory, from addr on; next is current->next_physical
ReturnFrom(s, addr, next) ==
    IF addr = NULL THEN s
    ELSE ReturnFrom(return_block(s, addr, HeaderAt(s, addr)), next,
                    HeaderAt(return_block(s, addr, HeaderAt(s, addr)), next).next_physical)

\* pool::return_memory on the pool at base.  free_space / PG_SIZE >= 0.8
\* follows from free_space >= MIN_RETURN_SIZE.
return_memory(s, base) ==
    IF ChainFaults(s, base + SIZEOF_BITMAP, {}) THEN Crash(s)
    ELSE IF U64Le(U(MIN_RETURN_SIZE), FreeSpace(s, base + SIZEOF_BITMAP))
    THEN ReturnFrom(s, base + SIZEOF_BITMAP, HeaderAt(s, base + SIZEOF_BITMAP).next_physical)
    ELSE s

(* ------------------------------------------------------------------------ *)
(* Coordinator: deallocate                                                  *)
(* ------------------------------------------------------------------------ *)
\* block_header::is_aligned(ptr), the header being readable
is_aligned(s, ptr) ==
    /\ is_base_aligned(ptr)
    /\ is_base_aligned(ptr - SIZEOF_HEADER)
    /\ HeaderAt(s, ptr - SIZEOF_HEADER).magic = HEADER_MAGIC
    /\ ptr % get_alignment_for_size(size(HeaderAt(s, ptr - SIZEOF_HEADER))) = 0

\* is_aligned(ptr) reads the header of an aligned pointer: a fault when the
\* memory before ptr is not mapped
HeaderFaults(s, ptr) == is_base_aligned(ptr) /\ ~Mapped(s, ptr - SIZEOF_HEADER)

\* deallocate of a validated tiny block
deallocate_tiny_route(s, ptr, cls) ==
    IF is_free(HeaderAt(s, ptr - SIZEOF_HEADER)) THEN s
    ELSE IF s.tiny_pools_[cls] # NULL
    THEN deallocate_tiny(SetFreeAt(s, ptr - SIZEOF_HEADER, TRUE), s.tiny_pools_[cls],
                         ptr - SIZEOF_HEADER, cls)
    ELSE s

\* the block the cache refused: unmapped, or handed to free(), which aborts
\* on a block that malloc did not return
release_large(s, ptr, header) ==
    IF is_memory_mapped(header)
    THEN UnmapMemory(s, ptr - SIZEOF_HEADER, LenVal(UnmapLength(size(header))))
    ELSE Crash(s)

large_cached(s, ptr, c) ==
    IF c.ok THEN c.s ELSE release_large(s, ptr, HeaderAt(s, ptr - SIZEOF_HEADER))

\* deallocate of a validated block of class 255
deallocate_large_route(s, ptr) ==
    large_cached(s, ptr, cache_block(s, ptr, size(HeaderAt(s, ptr - SIZEOF_HEADER))))

\* pool_manager_.deallocate(block, size_class), the last step of deallocate
pool_release(s, ptr, cls) ==
    IF s.crashed THEN s ELSE pool_manager_deallocate(s, ptr - SIZEOF_HEADER, cls)

\* t: the result of header->try_coalesce()
coalesced_return(t, ptr, cls) ==
    IF t.ok
    THEN pool_release(return_memory(t.s, (ptr - SIZEOF_HEADER) - ((ptr - SIZEOF_HEADER) % PG_SIZE)),
                      ptr, cls)
    ELSE pool_release(t.s, ptr, cls)

\* c: the result of thread_cache_.put(ptr, size_class)
pool_cached(s, ptr, cls, c) ==
    IF c.ok THEN SetFreeAt(c.s, ptr - SIZEOF_HEADER, TRUE)
    ELSE coalesced_return(try_coalesce(SetFreeAt(s, ptr - SIZEOF_HEADER, TRUE),
                                       ptr - SIZEOF_HEADER),
                          ptr, cls)

\* deallocate of a validated small or medium block
deallocate_pool_route(s, ptr, cls) ==
    IF is_free(HeaderAt(s, ptr - SIZEOF_HEADER)) THEN s
    ELSE pool_cached(s, ptr, cls, thread_cache_put(s, ptr, cls))

\* the routes of deallocate, the pointer having passed the guards
deallocate_routes(s, ptr, cls) ==
    IF cls >= SIZE_CLASSES /\ cls # LARGE_CLASS THEN s
    ELSE IF cls < TINY_CLASSES THEN deallocate_tiny_route(s, ptr, cls)
    ELSE IF cls = LARGE_CLASS THEN deallocate_large_route(s, ptr)
    ELSE deallocate_pool_route(s, ptr, cls)

\* a deallocate that checks the pointer's alignment and never its header
alignment_only_guard(s, ptr) ==
    \/ ~is_base_aligned(ptr)
    \/ ptr - (ptr % PG_SIZE) = 0

\* a deallocate that turns away the null page and nothing else
null_page_only_guard(s, ptr) == ptr - (ptr % PG_SIZE) = 0

\* the guards of deallocate: TRUE when the call returns without acting
deallocate_rejects(s, ptr) ==
    \/ ~is_aligned(s, ptr)
    \/ ~is_valid(HeaderAt(s, ptr - SIZEOF_HEADER))
    \/ ptr - (ptr % PG_SIZE) = 0

\* Jallocator::deallocate
deallocate(s, ptr) ==
    IF ptr = NULL THEN s
    ELSE IF HeaderFaults(s, ptr) THEN Crash(s)
    ELSE IF deallocate_rejects(s, ptr) THEN s
    ELSE deallocate_routes(s, ptr, size_class(HeaderAt(s, ptr - SIZEOF_HEADER)))

(* ------------------------------------------------------------------------ *)
(* Byte ranges: memset and memcpy over the modelled memory.  A 64-byte line *)
(* is eight words: a header holds four (data, magic, prev, next), a bitmap  *)
(* all eight; the bytes of a block that hold no header read as zero.        *)
(* ------------------------------------------------------------------------ *)
ONES64 == <<B16 - 1, B24 - 1, B24 - 1>>
WordOfPtr(p) == IF p < 0 THEN ONES64 ELSE U(p)
\* an address the model cannot name is an unmapped one
PtrOfWord(u) == IF FitsVal(u) THEN Val(u) ELSE MAP_FAILED

\* the low j bytes (of n) from src, the rest from dst
MergePart(dstv, srcv, j, n) ==
    IF j <= 0 THEN dstv
    ELSE IF j >= n THEN srcv
    ELSE (dstv - (dstv % (256 ^ j))) + (srcv % (256 ^ j))

\* the low k bytes of the word from src, the rest from dst
MergeLow(dstw, srcw, k) ==
    <<MergePart(dstw[1], srcw[1], k - 6, 2),
      MergePart(dstw[2], srcw[2], k - 3, 3),
      MergePart(dstw[3], srcw[3], k, 3)>>

RECURSIVE SumBits(_, _, _, _)
\* the value of bits lo..hi of bitmap word w, given the cleared indices
SumBits(cleared, w, lo, hi) ==
    IF lo > hi THEN 0
    ELSE (IF (w * bits_per_word + lo) \in cleared THEN 0 ELSE 1)
         + 2 * SumBits(cleared, w, lo + 1, hi)

WordOfBits(cleared, w) ==
    <<SumBits(cleared, w, 48, 63), SumBits(cleared, w, 24, 47), SumBits(cleared, w, 0, 23)>>

BitOfWord(u, j) ==
    IF j < 24 THEN (u[3] \div (2 ^ j)) % 2
    ELSE IF j < 48 THEN (u[2] \div (2 ^ (j - 24))) % 2
    ELSE (u[1] \div (2 ^ (j - 48))) % 2

\* the eight words of a header: four fields and padding
LineOfHeader(h) ==
    <<h.data, h.magic, WordOfPtr(h.prev_physical), WordOfPtr(h.next_physical),
      ZERO64, ZERO64, ZERO64, ZERO64>>

\* the eight words of the line at addr
LineAt(s, addr) ==
    IF addr \in DOMAIN s.bitmaps
    THEN [w \in 1..words_per_bitmap |-> WordOfBits(s.bitmaps[addr], w - 1)]
    ELSE LineOfHeader(HeaderAt(s, addr))

ZeroLine == [w \in 1..words_per_bitmap |-> ZERO64]

HeaderOfLine(line) ==
    [data |-> line[1], magic |-> line[2],
     prev_physical |-> PtrOfWord(line[3]), next_physical |-> PtrOfWord(line[4])]

ClearedOfLine(line) ==
    {k \in 0..(words_per_bitmap * bits_per_word - 1) :
        BitOfWord(line[(k \div bits_per_word) + 1], k % bits_per_word) = 0}

RangeMapped(s, base, len) ==
    \/ HeapBase <= base /\ base + len <= HeapBase + MaxHeapPages * PG_SIZE
    \/ \E m \in s.maps : m.base <= base /\ base + len <= m.base + m.len

\* the lines that hold something and start inside [base, base + len)
LinesIn(s, base, len) ==
    {a \in (DOMAIN s.mem) \cup (DOMAIN s.bitmaps) : base <= a /\ a < base + len}

\* the line at a after the bytes of `line` below address `end` are stored
StoredLine(s, a, line, end) ==
    [w \in 1..words_per_bitmap |-> MergeLow(LineAt(s, a)[w], line[w], end - (a + 8 * (w - 1)))]

\* the memory of s with the lines `touched` replaced by New(a)
StoreLines(s, touched, New(_)) ==
    [s EXCEPT !.mem = [a \in {x \in ((DOMAIN @) \cup touched) \ DOMAIN s.bitmaps :
                                 IF x \in touched THEN HeaderOfLine(New(x)) # ZeroHeader
                                 ELSE TRUE} |->
                          IF a \in touched THEN HeaderOfLine(New(a)) ELSE @[a]],
              !.bitmaps = [b \in DOMAIN @ |->
                             IF b \in touched THEN ClearedOfLine(New(b)) ELSE @[b]]]

\* memset(ptr, 0, len) and its streaming equivalents
zero_bytes(s, ptr, len) ==
    IF len = 0 THEN s
    ELSE IF ~RangeMapped(s, ptr, len) THEN Crash(s)
    ELSE StoreLines(s, LinesIn(s, ptr, len), LAMBDA a : StoredLine(s, a, ZeroLine, ptr + len))

\* memcpy(dst, src, len) and its streaming equivalents
copy_bytes(s, dst, src, len) ==
    IF len = 0 THEN s
    ELSE IF ~RangeMapped(s, dst, len) \/ ~RangeMapped(s, src, len) THEN Crash(s)
    ELSE StoreLines(s, LinesIn(s, dst, len) \cup {a - src + dst : a \in LinesIn(s, src, len)},
                    LAMBDA a : StoredLine(s, a, LineAt(s, a - dst + src), dst + len))

(* ------------------------------------------------------------------------ *)
(* Coordinator: reallocate, callocate, cleanup                              *)
(* ------------------------------------------------------------------------ *)
U64Min(x, y) == IF U64Lt(x, y) THEN x ELSE y

\* the mapping m moves to `to` with length len, and its headers with it
move_mapping(s, m, to, len) ==
    [s EXCEPT !.maps = (@ \ {m}) \cup {[base |-> to, len |-> len]},
              !.mem = [a \in ((DOMAIN @) \ {x \in DOMAIN @ : m.base <= x /\ x < m.base + m.len})
                             \cup {x - m.base + to :
                                     x \in {y \in DOMAIN @ : m.base <= y /\ y < m.base + len
                                                             /\ y < m.base + m.len}} |->
                          IF to <= a /\ a < to + len THEN @[a - to + m.base] ELSE @[a]]]

\* mremap(block, old_total, new_total, MREMAP_MAYMOVE); `remap` is the address
\* the kernel picks
MremapMemory(s, block, new_total, remap) ==
    IF \/ remap = MAP_FAILED
       \/ ~\E m \in s.maps : m.base = block
       \/ ~FitsVal(new_total)
       \/ LenVal(new_total) > MapStride
       \/ (remap # block /\ remap \notin FreeSlots(s))
    THEN [s |-> s, ptr |-> MAP_FAILED]
    ELSE [s |-> move_mapping(s, CHOOSE m \in s.maps : m.base = block, remap,
                             ((Val(new_total) + PG_SIZE - 1) \div PG_SIZE) * PG_SIZE),
          ptr |-> remap]

\* new_header->encode(new_size, 255, false); new_header->set_memory_mapped(true)
remapped(m, n) ==
    Ret(WriteHeader(m.s, m.ptr,
                    set_memory_mapped(encode(HeaderAt(m.s, m.ptr), n, LARGE_CLASS, FALSE), TRUE)),
        m.ptr + SIZEOF_HEADER)

\* c: the state after the copy into the new block
moved(c, ptr, new_ptr) ==
    IF c.crashed THEN Ret(c, NULL) ELSE Ret(deallocate(c, ptr), new_ptr)

\* a move that leaves the new block as allocate returned it
copy_skipped(r, ptr, n, old_size) ==
    IF r.ptr = NULL THEN Ret(r.s, NULL) ELSE moved(r.s, ptr, r.ptr)

\* r: the result of allocate(new_size)
copy_over(r, ptr, n, old_size) ==
    IF r.ptr = NULL THEN Ret(r.s, NULL)
    ELSE moved(copy_bytes(r.s, r.ptr, ptr, LenVal(U64Min(old_size, n))), ptr, r.ptr)

\* the tail of reallocate: allocate, copy, deallocate the old block
reallocate_move(s, ptr, n, old_size, page, slot) ==
    copy_over(allocate(s, n, page, slot), ptr, n, old_size)

\* an in-place test that gives every tiny block the 64 bytes of its slot
fits_tiny_slot(header, n) ==
    IF size_class(header) < TINY_CLASSES THEN U64Le(n, U(TINY_LARGE_THRESHOLD))
    ELSE IF size_class(header) < SIZE_CLASSES
    THEN U64Le(n, U(size_classes[size_class(header)].size))
    ELSE FALSE

\* TRUE when the block already holds new_size bytes
fits_in_place(header, n) ==
    IF size_class(header) < TINY_CLASSES THEN U64Le(n, U((size_class(header) + 1) * 8))
    ELSE IF size_class(header) < SIZE_CLASSES
    THEN U64Le(n, U(size_classes[size_class(header)].size))
    ELSE FALSE

\* m: the result of mremap
remap_or_move(s, ptr, n, header, page, slot, m) ==
    IF is_memory_mapped(header) /\ m.ptr # MAP_FAILED THEN remapped(m, n)
    ELSE reallocate_move(s, ptr, n, size(header), page, slot)

\* reallocate of an aligned pointer with new_size # 0
resize(s, ptr, n, header, page, slot, remap) ==
    IF ~is_valid(header) THEN Ret(s, NULL)
    ELSE IF U64Lt(POW47, size(header)) THEN Ret(s, NULL)
    ELSE IF fits_in_place(header, n) THEN Ret(s, ptr)
    ELSE remap_or_move(s, ptr, n, header, page, slot,
                       MremapMemory(s, ptr - SIZEOF_HEADER, U64Add(n, U(SIZEOF_HEADER)), remap))

\* a reallocate that does not allocate for a null pointer
reallocate_null_refused(s, ptr, n, page, slot, remap) ==
    IF ptr = NULL THEN Ret(s, NULL)
    ELSE IF HeaderFaults(s, ptr) THEN Ret(Crash(s), NULL)
    ELSE IF ~is_aligned(s, ptr) THEN Ret(s, NULL)
    ELSE IF n = ZERO64 THEN Ret(deallocate(s, ptr), NULL)
    ELSE resize(s, ptr, n, HeaderAt(s, ptr - SIZEOF_HEADER), page, slot, remap)

\* Jallocator::reallocate
reallocate(s, ptr, n, page, slot, remap) ==
    IF ptr = NULL THEN allocate(s, n, page, slot)
    ELSE IF HeaderFaults(s, ptr) THEN Ret(Crash(s), NULL)
    ELSE IF ~is_aligned(s, ptr) THEN Ret(s, NULL)
    ELSE IF n = ZERO64 THEN Ret(deallocate(s, ptr), NULL)
    ELSE resize(s, ptr, n, HeaderAt(s, ptr - SIZEOF_HEADER), page, slot, remap)

\* the six 12-bit limbs of a word, least significant first
Limbs(u) ==
    <<u[3] % 4096, u[3] \div 4096, u[2] % 4096, u[2] \div 4096, u[1] % 4096, u[1] \div 4096>>

RECURSIVE ColumnSum(_, _, _, _)
\* the sum of X[i] * Y[j] over i + j = k, from i upward
ColumnSum(X, Y, k, i) ==
    IF i > k \/ i > 5 THEN 0
    ELSE (IF k - i <= 5 THEN X[i + 1] * Y[k - i + 1] ELSE 0) + ColumnSum(X, Y, k, i + 1)

RECURSIVE ProductDigits(_, _, _, _)
\* the 12-bit digits of the product from column k upward, the last carry on
\* top; c is the sum of column k and the carry into it
ProductDigits(X, Y, k, c) ==
    IF k >= 10 THEN <<c % 4096, c \div 4096>>
    ELSE <<c % 4096>> \o ProductDigits(X, Y, k + 1, ColumnSum(X, Y, k + 1, 0) + (c \div 4096))

\* the product of the digits d: its low 64 bits, and whether more are set
U64OfDigits(d) ==
    [v |-> <<d[5] + 4096 * (d[6] % 16), d[3] + 4096 * d[4], d[1] + 4096 * d[2]>>,
     ovf |-> d[6] >= 16 \/ \E k \in 7..12 : d[k] # 0]

\* x * y modulo 2^64, and whether the product exceeds SIZE_MAX
U64Mul(x, y) ==
    U64OfDigits(ProductDigits(Limbs(x), Limbs(y), 0, ColumnSum(Limbs(x), Limbs(y), 0, 0)))

\* a callocate that multiplies without looking at the quotient
never_overflows(num, sz) == FALSE

\* num > SIZE_MAX / size, for size # 0
multiplication_overflows(num, sz) == U64Mul(num, sz).ovf

\* a callocate that returns the block as allocate left it
not_zeroed(r, total_size) == r

\* r: the result of allocate(total_size)
zeroed(r, total_size) ==
    IF r.ptr = NULL THEN Ret(r.s, NULL)
    ELSE Ret(zero_bytes(r.s, r.ptr, LenVal(total_size)), r.ptr)

\* Jallocator::callocate
callocate(s, num, sz, page, slot) ==
    IF num = ZERO64 \/ sz = ZERO64 THEN Ret(s, NULL)
    ELSE IF multiplication_overflows(num, sz) THEN Ret(s, NULL)
    ELSE zeroed(allocate(s, U64Mul(num, sz).v, page, slot), U64Mul(num, sz).v)

\* a cleanup that leaves the tiny pools where they are
keep_tiny_pool(s, cls) == s

\* operator delete(pool) and pool = nullptr
delete_tiny_pool(s, cls) ==
    IF s.tiny_pools_[cls] = NULL THEN s
    ELSE [DeletePool(s, s.tiny_pools_[cls]) EXCEPT !.tiny_pools_[cls] = NULL]

RECURSIVE DeleteTinyPools(_, _)
DeleteTinyPools(s, cls) ==
    IF cls >= TINY_CLASSES THEN s
    ELSE DeleteTinyPools(delete_tiny_pool(s, cls), cls + 1)

\* Jallocator::cleanup
cleanup(s) == DeleteTinyPools(thread_cache_clear(large_cache_clear(s)), 0)

(* ------------------------------------------------------------------------ *)
(* The allocator of one thread and its client                               *)
(* ------------------------------------------------------------------------ *)
VARIABLES
    tiny_pools_,    \* Jallocator::tiny_pools_
    pools,          \* Jallocator::pool_manager_
    thread_cache_,  \* Jallocator::thread_cache_
    large_cache,    \* Jallocator::large_block_cache_
    bitmaps,        \* the bitmap of every live pool page
    mem,            \* the block headers in memory, by address
    maps,           \* the mappings obtained from the OS
    clock,          \* large_block_cache_t::get_timestamp
    crashed,        \* the process has faulted or terminated
    live,           \* pointers returned to the client and not given back
    freed,          \* pointers the client gave back and may still hold
    trace,          \* the most recent calls, oldest first
    steps,          \* calls made so far
    other,          \* the thread_local objects and blocks of the thread not running
    pc,             \* where each thread is inside allocate, and its locals
    init_mutex      \* the threads that hold allocate's static init_mutex

progvars == <<tiny_pools_, pools, thread_cache_, large_cache, bitmaps, mem, maps, clock, crashed>>
vars == <<tiny_pools_, pools, thread_cache_, large_cache, bitmaps, mem, maps, clock, crashed,
          live, freed, trace, steps, other, pc, init_mutex>>

Threads == {0, 1}
\* a thread outside allocate
Idle == [at |-> "idle", n |-> ZERO64, calls |-> 0, i |-> 0, expected |-> {},
         again |-> FALSE, ret |-> NULL, got |-> {}]

MaxSteps == 3
MaxTinySteps == 33
MaxTinyFrees == 1
MaxCacheSteps == 6
MaxFillSteps == 11
MaxFillMaps == 5
MaxDataSteps == 4
TraceLen == 3

State ==
    [tiny_pools_ |-> tiny_pools_, pools |-> pools, thread_cache_ |-> thread_cache_,
     large_cache |-> large_cache, bitmaps |-> bitmaps, mem |-> mem, maps |-> maps,
     clock |-> clock, crashed |-> crashed]

Commit(s) ==
    /\ tiny_pools_' = s.tiny_pools_
    /\ pools' = s.pools
    /\ thread_cache_' = s.thread_cache_
    /\ large_cache' = s.large_cache
    /\ bitmaps' = s.bitmaps
    /\ mem' = s.mem
    /\ maps' = s.maps
    /\ clock' = s.clock
    /\ crashed' = s.crashed

\* static and thread_local initialisation
Init ==
    /\ tiny_pools_ = [c \in 0..(TINY_CLASSES - 1) |-> NULL]
    /\ pools = [c \in 0..(SIZE_CLASSES - 1) |-> <<>>]
    /\ thread_cache_ = [c \in 0..(SIZE_CLASSES - 1) |-> <<>>]
    /\ large_cache = EmptyLargeCache
    /\ bitmaps = <<>>
    /\ mem = <<>>
    /\ maps = {}
    /\ clock = 0
    /\ crashed = FALSE
    /\ live = {}
    /\ freed = {}
    /\ trace = <<>>
    /\ steps = 0
    /\ other = [id |-> 1,
                tiny_pools_ |-> [c \in 0..(TINY_CLASSES - 1) |-> NULL],
                pools |-> [c \in 0..(SIZE_CLASSES - 1) |-> <<>>],
                thread_cache_ |-> [c \in 0..(SIZE_CLASSES - 1) |-> <<>>],
                large_cache |-> EmptyLargeCache,
                live |-> {}, freed |-> {}]
    /\ pc = [t \in Threads |-> Idle]
    /\ init_mutex = {}

\* what operator new and mmap may answer in state s
PageChoices(s) == FreePages(s) \cup {NULL}
SlotChoices(s) == FreeSlots(s) \cup {MAP_FAILED}

\* request sizes: invalid, tiny, small, medium, large
AllocSizes ==
    {ZERO64, U(32), U(200), U(600), U(PG_SIZE), U(8 * 1024 * 1024), U64Add(POW47, U(1))}
TinySizes == {U(8)}
ReallocSizes == {ZERO64, U(24), U(56), U(200)}
\* 2 * (2^63 + 16) is 2^64 + 32: in size_t the product wraps to 32
CallocArgs ==
    {<<ZERO64, U(8)>>, <<U(4), U(8)>>, <<U(1), U(PG_SIZE)>>, <<U(2), <<B16 \div 2, 0, 16>>>>}
\* 0xDEAD, and an aligned address in no mapping
WildPointers == {57005, 57024}
PointerArgs == {NULL} \cup WildPointers \cup live \cup freed

\* the pool pages and mappings of s
Fleet(s) == DOMAIN s.bitmaps
grows(s, t) == ~(Fleet(t) \subseteq Fleet(s)) \/ ~(t.maps \subseteq s.maps)

\* TRUE when pool_manager::allocate asks operator new for a pool and is refused
pool_refused(s, cls, page) ==
    /\ page = NULL
    /\ Len(s.thread_cache_[cls]) = 0
    /\ Len(s.pools[cls]) < MAX_POOLS
    /\ \A i \in 1..Len(s.pools[cls]) : pool_allocate_at(s, cls, i).ptr = NULL

\* TRUE when the request reaches the OS and the OS refuses it
os_refused(s, n, page, slot) ==
    IF n = ZERO64 \/ U64Lt(POW47, n) THEN FALSE
    ELSE IF U64Le(n, U(TINY_LARGE_THRESHOLD))
    THEN small_class(n) < TINY_CLASSES /\ s.tiny_pools_[small_class(n)] = NULL /\ page = NULL
    ELSE IF U64Le(U(PG_SIZE), n)
    THEN get_cached_block(s, n).ptr = NULL /\ slot = MAP_FAILED
    ELSE IF U64Le(n, U(SMALL_LARGE_THRESHOLD)) THEN pool_refused(s, small_class(n), page)
    ELSE pool_refused(s, medium_class(n), page)

Record(call) ==
    /\ trace' = IF Len(trace) < TraceLen THEN Append(trace, call)
                ELSE Append(Tail(trace), call)
    /\ steps' = steps + 1
    /\ UNCHANGED <<other, pc, init_mutex>>

\* what the guards of deallocate are there to turn away: a pointer off the
\* cache-line grid, or one whose header lacks the magic or is not valid
BadPointer(s, ptr) ==
    /\ ptr # NULL
    /\ \/ ptr % CACHE_LINE_SIZE # 0
       \/ /\ Mapped(s, ptr - SIZEOF_HEADER)
          /\ \/ HeaderAt(s, ptr - SIZEOF_HEADER).magic # HEADER_MAGIC
             \/ ~is_valid(HeaderAt(s, ptr - SIZEOF_HEADER))

\* the record of a call made in state s with result r: what it was given and
\* returned, whether it added a pool or a mapping, whether it changed the
\* allocator at all, and whether the client still held what it returned
Call(op, ptr, n, r, s, refused) ==
    [op |-> op, ptr |-> ptr, n |-> n, ret |-> r.ptr,
     grew |-> grows(s, r.s), same |-> r.s = s,
     dup |-> r.ptr # NULL /\ r.ptr \in live,
     issued |-> ptr \in live \cup freed,
     bad |-> BadPointer(s, ptr),
     refused |-> refused]

\* r: the result of the call recorded as `call`; the client holds what it
\* was given
Called(call, r) ==
    /\ Commit(r.s)
    /\ live' = IF r.ptr # NULL THEN live \cup {r.ptr} ELSE live
    /\ freed' = freed \ {r.ptr}
    /\ Record(call)

Obtained(op, n, r, refused) == Called(Call(op, NULL, n, r, State, refused), r)

\* r: the result of callocate(a[1], a[2]); the record keeps both arguments
\* beside their product in size_t
CallocObtained(a, r) ==
    Called(Call("callocate", NULL, U64Mul(a[1], a[2]).v, r, State, FALSE)
               @@ [num |-> a[1], each |-> a[2]], r)

\* allocate(n) for some n of `sizes`
AllocateOf(sizes) ==
    \E n \in sizes, page \in PageChoices(State), slot \in SlotChoices(State) :
        Obtained("allocate", n, allocate(State, n, page, slot),
                 os_refused(State, n, page, slot))

\* deallocate(ptr); the client no longer holds ptr
Released(ptr) ==
    /\ Commit(deallocate(State, ptr))
    /\ live' = live \ {ptr}
    /\ freed' = IF ptr \in live THEN freed \cup {ptr} ELSE freed
    /\ Record(Call("deallocate", ptr, ZERO64, Ret(deallocate(State, ptr), NULL),
                   State, FALSE))

Allocate ==
    /\ ~crashed /\ steps < MaxSteps
    /\ AllocateOf(AllocSizes)

Deallocate ==
    /\ ~crashed /\ steps < MaxSteps
    /\ \E ptr \in PointerArgs : Released(ptr)

\* reallocate hands ptr to deallocate when it moves the block, and when
\* new_size is 0 and the pointer guard passes
gives_back(s, ptr, n, r) ==
    /\ ptr # NULL
    /\ ~r.s.crashed
    /\ \/ r.ptr # NULL /\ r.ptr # ptr
       \/ n = ZERO64 /\ is_aligned(s, ptr)

\* r: the result of reallocate; back: whether ptr went to deallocate
Resized(ptr, n, r, back, refused) ==
    /\ Commit(r.s)
    /\ live' = (IF back THEN live \ {ptr} ELSE live)
               \cup (IF r.ptr # NULL THEN {r.ptr} ELSE {})
    /\ freed' = (IF back /\ ptr \in live THEN freed \cup {ptr} ELSE freed) \ {r.ptr}
    /\ Record(Call("reallocate", ptr, n, r, State, refused))

ReallocateCall(ptr, n, r, refused) ==
    Resized(ptr, n, r, gives_back(State, ptr, n, r), refused)

Reallocate ==
    /\ ~crashed /\ steps < MaxSteps
    /\ \E ptr \in PointerArgs, n \in ReallocSizes,
          page \in PageChoices(State), slot \in SlotChoices(State) :
          ReallocateCall(ptr, n, reallocate(State, ptr, n, page, slot, slot),
                         os_refused(State, n, page, slot))

Callocate ==
    /\ ~crashed /\ steps < MaxSteps
    /\ \E a \in CallocArgs, page \in PageChoices(State), slot \in SlotChoices(State) :
          CallocObtained(a, callocate(State, a[1], a[2], page, slot))

\* the blocks of the tiny pools go with their pools
InTinyPool(s, ptr) ==
    \E c \in 0..(TINY_CLASSES - 1) :
        s.tiny_pools_[c] # NULL /\ s.tiny_pools_[c] <= ptr /\ ptr < s.tiny_pools_[c] + PG_SIZE

Cleanup ==
    /\ ~crashed /\ steps < MaxSteps
    /\ Commit(cleanup(State))
    /\ live' = {p \in live : ~InTinyPool(State, p)}
    /\ freed' = freed \cup {p \in live : InTinyPool(State, p)}
    /\ Record(Call("cleanup", NULL, ZERO64, Ret(cleanup(State), NULL), State, FALSE))

Next == Allocate \/ Deallocate \/ Reallocate \/ Callocate \/ Cleanup

Spec == Init /\ [][Next]_vars

(* ------------------------------------------------------------------------ *)
(* A client that fills one tiny class: enough calls to use up a tiny pool   *)
(* ------------------------------------------------------------------------ *)
AllocateTiny ==
    /\ ~crashed /\ steps < MaxTinySteps
    /\ AllocateOf(TinySizes)

\* the client gives back blocks it holds, MaxTinyFrees of them at most
DeallocateTiny ==
    /\ ~crashed /\ steps < MaxTinySteps
    /\ Cardinality(freed) < MaxTinyFrees
    /\ \E ptr \in live : Released(ptr)

NextTiny == AllocateTiny \/ DeallocateTiny

SpecTiny == Init /\ [][NextTiny]_vars

(* ------------------------------------------------------------------------ *)
(* The large-block cache driven through the code that calls it:             *)
(* allocate_large (get_cached_block), the class-255 branch of deallocate    *)
(* (cache_block, or the unmap when the cache refuses) and cleanup (clear)   *)
(* ------------------------------------------------------------------------ *)
\* large request sizes of one bucket: 5000 is within 1.25 of 4096, 8192 is not
CacheSizes == {U(PG_SIZE), U(5000), U(2 * PG_SIZE)}

AllocateLarge ==
    /\ ~crashed /\ steps < MaxCacheSteps
    /\ AllocateOf(CacheSizes)

\* r: the state after the class-255 branch of deallocate took ptr
LargeReleased(ptr, n, r) ==
    /\ Commit(r)
    /\ live' = live \ {ptr}
    /\ freed' = freed \cup {ptr}
    /\ Record(Call("cache_block", ptr, n, Ret(r, NULL), State, FALSE))

\* the branch of deallocate for a block whose header says class 255
ReleaseLarge ==
    \E ptr \in live :
        /\ size_class(HeaderAt(State, ptr - SIZEOF_HEADER)) = LARGE_CLASS
        /\ LargeReleased(ptr, size(HeaderAt(State, ptr - SIZEOF_HEADER)),
                         deallocate_large_route(State, ptr))

\* cleanup(); the client's large blocks stay its own
Cleared ==
    /\ Commit(cleanup(State))
    /\ UNCHANGED <<live, freed>>
    /\ Record(Call("cleanup", NULL, ZERO64, Ret(cleanup(State), NULL), State, FALSE))

CacheBlock ==
    /\ ~crashed /\ steps < MaxCacheSteps
    /\ ReleaseLarge

ClearCache ==
    /\ ~crashed /\ steps < MaxCacheSteps
    /\ Cleared

NextCache == AllocateLarge \/ CacheBlock \/ ClearCache

SpecCache == Init /\ [][NextCache]_vars

(* ------------------------------------------------------------------------ *)
(* The same three operations on blocks of 4 KiB and of 1 MiB                *)
(* ------------------------------------------------------------------------ *)
MaxAdmitSteps == 6
AdmitSizes == {U(PG_SIZE), U(1024 * 1024)}

AdmitAllocate ==
    /\ ~crashed /\ steps < MaxAdmitSteps
    /\ AllocateOf(AdmitSizes)

AdmitCacheBlock ==
    /\ ~crashed /\ steps < MaxAdmitSteps
    /\ ReleaseLarge

AdmitClear ==
    /\ ~crashed /\ steps < MaxAdmitSteps
    /\ Cleared

NextAdmit == AdmitAllocate \/ AdmitCacheBlock \/ AdmitClear

SpecAdmit == Init /\ [][NextAdmit]_vars

(* ------------------------------------------------------------------------ *)
(* The same three operations on blocks of one size, with enough mappings    *)
(* and calls to fill a bucket and cache one block more                      *)
(* ------------------------------------------------------------------------ *)
FillSizes == {U(PG_SIZE)}
FillSlots == {MmapBase + j * MapStride : j \in 0..(MaxFillMaps - 1)}

\* the OS maps at the lowest address it has free
LowestFree(s) ==
    {a \in FillSlots :
        /\ \A m \in s.maps : m.base # a
        /\ \A c \in FillSlots : c < a => \E m \in s.maps : m.base = c}

FillAllocate ==
    /\ ~crashed /\ steps < MaxFillSteps
    /\ \E n \in FillSizes, slot \in LowestFree(State) :
          Obtained("allocate", n, allocate(State, n, NULL, slot), FALSE)

FillCacheBlock ==
    /\ ~crashed /\ steps < MaxFillSteps
    /\ ReleaseLarge

FillClear ==
    /\ ~crashed /\ steps < MaxFillSteps
    /\ Cleared

NextFill == FillAllocate \/ FillCacheBlock \/ FillClear

SpecFill == Init /\ [][NextFill]_vars

(* ------------------------------------------------------------------------ *)
(* Blocks of 4 KiB and 8 KiB, which share a bucket, with enough mappings    *)
(* and calls to cache two blocks more than the bucket has entries           *)
(* ------------------------------------------------------------------------ *)
MaxEvictSteps == 12
MaxEvictMaps == 6
EvictSizes == {U(PG_SIZE), U(2 * PG_SIZE)}
EvictSlots == {MmapBase + j * MapStride : j \in 0..(MaxEvictMaps - 1)}

\* the OS maps at the lowest address it has free
LowestSlot(s) ==
    {a \in EvictSlots :
        /\ \A m \in s.maps : m.base # a
        /\ \A c \in EvictSlots : c < a => \E m \in s.maps : m.base = c}

EvictAllocate ==
    /\ ~crashed /\ steps < MaxEvictSteps
    /\ \E n \in EvictSizes, slot \in LowestSlot(State) :
          Obtained("allocate", n, allocate(State, n, NULL, slot), FALSE)

\* the client gives back the block at the lowest address it holds
EvictCacheBlock ==
    /\ ~crashed /\ steps < MaxEvictSteps
    /\ \E ptr \in live :
          /\ \A q \in live : ptr <= q
          /\ size_class(HeaderAt(State, ptr - SIZEOF_HEADER)) = LARGE_CLASS
          /\ LargeReleased(ptr, size(HeaderAt(State, ptr - SIZEOF_HEADER)),
                           deallocate_large_route(State, ptr))

NextEvict == EvictAllocate \/ EvictCacheBlock

SpecEvict == Init /\ [][NextEvict]_vars

(* ------------------------------------------------------------------------ *)
(* A client that writes into the blocks it holds: what reallocate copies    *)
(* and callocate clears is then something other than zero                   *)
(* ------------------------------------------------------------------------ *)
\* tiny, and small of a class whose slot_size is 0
DataSizes == {U(32), U(200)}
DataReallocSizes == {U(56), U(200)}
DataCallocArgs == {<<U(4), U(8)>>, <<U(25), U(8)>>}

\* the 32 bytes the client writes at the start of a block: the four words
\* the model keeps of a line
ClientLine ==
    [data |-> <<43981, 1, 2>>, magic |-> <<3, 4, 5>>, prev_physical |-> 6, next_physical |-> 7]

DataAllocate ==
    /\ ~crashed /\ steps < MaxDataSteps
    /\ AllocateOf(DataSizes)

\* the client writes ClientLine into a block it holds
DataStore ==
    /\ ~crashed /\ steps < MaxDataSteps
    /\ \E ptr \in live :
          /\ Commit(WriteHeader(State, ptr, ClientLine))
          /\ UNCHANGED <<live, freed>>
          /\ Record(Call("store", ptr, U(32),
                         Ret(WriteHeader(State, ptr, ClientLine), NULL), State, FALSE))

DataReallocate ==
    /\ ~crashed /\ steps < MaxDataSteps
    /\ \E ptr \in live, n \in DataReallocSizes,
          page \in PageChoices(State), slot \in SlotChoices(State) :
          ReallocateCall(ptr, n, reallocate(State, ptr, n, page, slot, slot),
                         os_refused(State, n, page, slot))

DataCallocate ==
    /\ ~crashed /\ steps < MaxDataSteps
    /\ \E a \in DataCallocArgs, page \in PageChoices(State), slot \in SlotChoices(State) :
          CallocObtained(a, callocate(State, a[1], a[2], page, slot))

NextData == DataAllocate \/ DataStore \/ DataReallocate \/ DataCallocate

SpecData == Init /\ [][NextData]_vars

\* the medium path: two blocks of class 9 and one of the size of their union
MaxMediumSteps == 5
MediumSizes == {U(600), U(600 + 600 + SIZEOF_HEADER)}

MediumAllocate ==
    /\ ~crashed /\ steps < MaxMediumSteps
    /\ AllocateOf(MediumSizes)

MediumDeallocate ==
    /\ ~crashed /\ steps < MaxMediumSteps
    /\ \E ptr \in live \cup freed : Released(ptr)

NextMedium == MediumAllocate \/ MediumDeallocate

SpecMedium == Init /\ [][NextMedium]_vars

(* ------------------------------------------------------------------------ *)
(* Two threads.  The four allocator objects are thread_local: each thread   *)
(* has its own, `other` keeps those of the thread that is not running.  The *)
(* address space (pool pages, headers, mappings) is one for both.  Calls    *)
(* interleave as wholes.                                                    *)
(* ------------------------------------------------------------------------ *)
MaxThreadSteps == 4
ThreadSizes == {U(32), U(600)}

\* the scheduler runs the other thread
Switch ==
    /\ ~crashed
    /\ tiny_pools_' = other.tiny_pools_
    /\ pools' = other.pools
    /\ thread_cache_' = other.thread_cache_
    /\ large_cache' = other.large_cache
    /\ live' = other.live
    /\ freed' = other.freed
    /\ other' = [id |-> 1 - other.id, tiny_pools_ |-> tiny_pools_, pools |-> pools,
                 thread_cache_ |-> thread_cache_, large_cache |-> large_cache,
                 live |-> live, freed |-> freed]
    /\ UNCHANGED <<bitmaps, mem, maps, clock, crashed, trace, steps, pc, init_mutex>>

ThreadAllocate ==
    /\ ~crashed /\ steps < MaxThreadSteps
    /\ AllocateOf(ThreadSizes)

\* a thread frees what it holds, or what the other thread handed to it
ThreadDeallocate ==
    /\ ~crashed /\ steps < MaxThreadSteps
    /\ \E ptr \in live \cup freed \cup other.live : Released(ptr)

ThreadCleanup ==
    /\ ~crashed /\ steps < MaxThreadSteps
    /\ Commit(cleanup(State))
    /\ live' = {p \in live : ~InTinyPool(State, p)}
    /\ freed' = freed \cup {p \in live : InTinyPool(State, p)}
    /\ Record(Call("cleanup", NULL, ZERO64, Ret(cleanup(State), NULL), State, FALSE))

NextThreads == ThreadAllocate \/ ThreadDeallocate \/ ThreadCleanup \/ Switch

SpecThreads == Init /\ [][NextThreads]_vars

(* ------------------------------------------------------------------------ *)
(* A block header on its own: init on drawn arguments, then the flag        *)
(* setters.  The header lies at the first line of the heap arena.           *)
(* ------------------------------------------------------------------------ *)
MaxHeaderSteps == 2
HeaderSizes == {ZERO64, U(1), U(600), U(PG_SIZE), POW47, U64Add(POW47, U(1))}
HeaderClasses == {0, 7, 9, SIZE_CLASSES - 1, LARGE_CLASS}

\* the header under test
Header == HeaderAt(State, HeapBase)

\* the header becomes h by the call recorded
HeaderBecomes(h, call) ==
    /\ Commit(WriteHeader(State, HeapBase, h))
    /\ UNCHANGED <<live, freed>>
    /\ Record(call)

\* header->init(sz, cls, free)
HeaderInit ==
    /\ steps < MaxHeaderSteps
    /\ \E sz \in HeaderSizes, cls \in HeaderClasses, free \in BOOLEAN :
          HeaderBecomes(init(sz, cls, free, NULL, NULL),
                        [op |-> "init", n |-> sz, cls |-> cls, flag |-> free])

\* header->set_free(b)
SetFree ==
    /\ steps < MaxHeaderSteps /\ HeapBase \in DOMAIN mem
    /\ \E b \in BOOLEAN :
          HeaderBecomes(set_free(Header, b),
                        [op |-> "set_free", n |-> ZERO64, cls |-> 0, flag |-> b])

\* header->set_memory_mapped(b)
SetMemoryMapped ==
    /\ steps < MaxHeaderSteps /\ HeapBase \in DOMAIN mem
    /\ \E b \in BOOLEAN :
          HeaderBecomes(set_memory_mapped(Header, b),
                        [op |-> "set_memory_mapped", n |-> ZERO64, cls |-> 0, flag |-> b])

\* header->set_coalesced(b)
SetCoalesced ==
    /\ steps < MaxHeaderSteps /\ HeapBase \in DOMAIN mem
    /\ \E b \in BOOLEAN :
          HeaderBecomes(set_coalesced(Header, b),
                        [op |-> "set_coalesced", n |-> ZERO64, cls |-> 0, flag |-> b])

NextHeader == HeaderInit \/ SetFree \/ SetMemoryMapped \/ SetCoalesced

SpecHeader == Init /\ [][NextHeader]_vars

(* ------------------------------------------------------------------------ *)
(* try_coalesce on its own: four blocks laid out one after the other in the *)
(* heap arena, their headers initialised with init(size, class, true, prev, *)
(* next) from the first to the last; then set_free(false),                  *)
(* set_memory_mapped(true) and try_coalesce on headers of the list.         *)
(* ------------------------------------------------------------------------ *)
MaxChainSteps == 7
ChainSizes == <<64, 128, 192, 64>>
ChainLen == Len(ChainSizes)
ChainClasses == {3, 9}

RECURSIVE ChainAt(_)
\* the address of the header of block k: each block follows the one before
ChainAt(k) ==
    IF k = 0 THEN HeapBase + SIZEOF_BITMAP
    ELSE ChainAt(k - 1) + SIZEOF_HEADER + ChainSizes[k]

ChainLink(k) == IF k < 0 \/ k >= ChainLen THEN NULL ELSE ChainAt(k)

RECURSIVE Walk(_, _, _)
\* the headers met from addr along next_physical, n of them at most
Walk(s, addr, n) ==
    IF addr = NULL \/ n = 0 THEN {}
    ELSE {addr} \cup Walk(s, HeaderAt(s, addr).next_physical, n - 1)

\* the headers of the list
Chain(s) == Walk(s, ChainAt(0), ChainLen)

\* s: the memory after the call recorded
ChainBecomes(s, call) ==
    /\ Commit(s)
    /\ UNCHANGED <<live, freed>>
    /\ Record(call)

\* header k of the list under construction receives init
ChainInit ==
    /\ steps < ChainLen
    /\ \E cls \in ChainClasses :
          ChainBecomes(WriteHeader(State, ChainAt(steps),
                                   init(U(ChainSizes[steps + 1]), cls, TRUE,
                                        ChainLink(steps - 1), ChainLink(steps + 1))),
                       [op |-> "init", ptr |-> ChainAt(steps), ok |-> TRUE])

\* header->set_free(false) on a header of the list
ChainSetFree ==
    /\ ChainLen <= steps /\ steps < MaxChainSteps /\ ~crashed
    /\ \E addr \in Chain(State) :
          ChainBecomes(SetFreeAt(State, addr, FALSE),
                       [op |-> "set_free", ptr |-> addr, ok |-> FALSE])

\* header->set_memory_mapped(true) on a header of the list
ChainSetMapped ==
    /\ ChainLen <= steps /\ steps < MaxChainSteps /\ ~crashed
    /\ \E addr \in Chain(State) :
          ChainBecomes(WriteHeader(State, addr, set_memory_mapped(HeaderAt(State, addr), TRUE)),
                       [op |-> "set_memory_mapped", ptr |-> addr, ok |-> TRUE])

\* r: what header->try_coalesce() returned for the header at addr
Coalesced(addr, r) ==
    ChainBecomes(r.s, [op |-> "try_coalesce", ptr |-> addr, ok |-> r.ok])

ChainCoalesce ==
    /\ ChainLen <= steps /\ steps < MaxChainSteps /\ ~crashed
    /\ \E addr \in Chain(State) : Coalesced(addr, try_coalesce(State, addr))

NextChain == ChainInit \/ ChainSetFree \/ ChainSetMapped \/ ChainCoalesce

SpecChain == Init /\ [][NextChain]_vars

(* ------------------------------------------------------------------------ *)
(* The class of a request and the size-class table, each applied once to    *)
(* an argument drawn from its whole range.                                  *)
(* ------------------------------------------------------------------------ *)
\* the sizes allocate serves from the pools: above TINY_LARGE_THRESHOLD, below
\* PG_SIZE
PoolSizes == (TINY_LARGE_THRESHOLD + 1)..(PG_SIZE - 1)

\* the class allocate derives for a pool size: (size - 1) >> 3 up to
\* SMALL_LARGE_THRESHOLD, 31 - __builtin_clz(size - 1) above
request_class(n) ==
    IF U64Le(n, U(SMALL_LARGE_THRESHOLD)) THEN small_class(n) ELSE medium_class(n)

\* the function applied leaves the allocator as it is
Applied(call) ==
    /\ Commit(State)
    /\ UNCHANGED <<live, freed>>
    /\ Record(call)

RequestClass ==
    /\ steps = 0
    /\ \E n \in PoolSizes :
        Applied([op |-> "request_class", n |-> U(n), cls |-> request_class(U(n))])

TableEntry ==
    /\ steps = 0
    /\ \E i \in 0..(SIZE_CLASSES - 1) :
        Applied([op |-> "size_classes", n |-> U64Pow2(i + 3), cls |-> i,
                 entry |-> size_classes[i]])

NextClass == RequestClass \/ TableEntry

SpecClass == Init /\ [][NextClass]_vars

(* ------------------------------------------------------------------------ *)
(* allocate on the tiny path, statement by statement, in two threads: the   *)
(* probe of the thread's tiny pool, the compare-exchange loop of            *)
(* find_free_block, the lock of init_mutex, the creation of the pool and    *)
(* the recursive allocate made with the lock held.  Thread 0 uses the       *)
(* allocator objects of the model, thread 1 those kept in `other`.          *)
(* ------------------------------------------------------------------------ *)
MaxLockCalls == 3
LockSizes == {U(8)}

\* tiny_pools_[c] of thread t
TinyPoolOf(t, c) == IF t = 1 - other.id THEN tiny_pools_[c] ELSE other.tiny_pools_[c]

\* tiny_pools_[c] = page in thread t; the block ptr, if any, goes to its client
ThreadKeeps(t, c, page, ptr) ==
    IF t = 1 - other.id
    THEN /\ tiny_pools_' = [tiny_pools_ EXCEPT ![c] = page]
         /\ live' = IF ptr # NULL THEN live \cup {ptr} ELSE live
         /\ other' = other
    ELSE /\ other' = [other EXCEPT !.tiny_pools_[c] = page,
                                   !.live = IF ptr # NULL THEN @ \cup {ptr} ELSE @]
         /\ UNCHANGED <<tiny_pools_, live>>

\* the memory after the step is that of s
MemoryOf(s) ==
    /\ bitmaps' = s.bitmaps
    /\ mem' = s.mem
    /\ UNCHANGED <<pools, thread_cache_, large_cache, maps, clock, crashed, freed, trace>>

\* thread t goes to `at` with nothing else changed
Goes(t, next) ==
    /\ pc' = [pc EXCEPT ![t] = next]
    /\ UNCHANGED <<tiny_pools_, pools, thread_cache_, large_cache, bitmaps, mem, maps, clock,
                   crashed, live, freed, trace, steps, other, init_mutex>>

\* the client of thread t calls allocate(n)
Enter(t) ==
    /\ ~crashed /\ pc[t].at = "idle" /\ pc[t].calls < MaxLockCalls
    /\ \E n \in LockSizes :
          Goes(t, [pc[t] EXCEPT !.at = "probe", !.n = n, !.calls = @ + 1,
                                !.again = FALSE, !.ret = NULL])

\* if (auto *tiny_pool = tiny_pools_[size_class])
Probe(t) ==
    /\ ~crashed /\ pc[t].at = "probe"
    /\ Goes(t, [pc[t] EXCEPT !.at = IF TinyPoolOf(t, small_class(pc[t].n)) # NULL
                                    THEN "load" ELSE "lock",
                             !.i = 0])

\* the for loop of find_free_block: expected = words[i].load()
Load(t) ==
    /\ ~crashed /\ pc[t].at = "load"
    /\ Goes(t, IF pc[t].i >= words_per_bitmap
               THEN [pc[t] EXCEPT !.at = "lock"]
               ELSE IF BitAnd(pc[t].i, (get_alignment_for_size(pc[t].n) \div bits_per_word) - 1) # 0
               THEN [pc[t] EXCEPT !.i = @ + 1]
               ELSE [pc[t] EXCEPT !.at = "cas",
                        !.expected = WordFreeBits(
                            bitmaps[TinyPoolOf(t, small_class(pc[t].n))], pc[t].i)])

\* an exchange that stores without comparing
cas_blind(word, expected) == TRUE

\* compare_exchange_weak(expected, desired) on x86-64: it succeeds when the
\* word still holds `expected`
cas_succeeds(word, expected) == word = expected

\* the block at `index` claimed by thread t: allocate_tiny's bounds checks,
\* then the header; r is the block, b what allocate returns
Claimed(t, b) ==
    /\ MemoryOf(b.s)
    /\ steps' = steps
    /\ init_mutex' = init_mutex
    /\ ThreadKeeps(t, small_class(pc[t].n), TinyPoolOf(t, small_class(pc[t].n)), NULL)
    /\ pc' = [pc EXCEPT ![t] = [@ EXCEPT !.at = IF b.ptr # NULL THEN "return" ELSE "lock",
                                         !.ret = b.ptr]]

ClaimAt(t, pool, index) ==
    Claimed(t, tiny_return(State, pool, pc[t].n, small_class(pc[t].n),
                           tiny_block(pool, tiny_slot_size(small_class(pc[t].n)),
                                      claim_block(bitmaps[pool], index))))

\* while (expected != 0) { ... compare_exchange_weak ... }
Cas(t) ==
    /\ ~crashed /\ pc[t].at = "cas"
    /\ IF pc[t].expected = {}
       THEN Goes(t, [pc[t] EXCEPT !.at = "load", !.i = @ + 1])
       ELSE IF cas_succeeds(WordFreeBits(bitmaps[TinyPoolOf(t, small_class(pc[t].n))], pc[t].i),
                            pc[t].expected)
       THEN ClaimAt(t, TinyPoolOf(t, small_class(pc[t].n)),
                    pc[t].i * bits_per_word + MinOf(pc[t].expected))
       ELSE Goes(t, [pc[t] EXCEPT !.expected =
                        WordFreeBits(bitmaps[TinyPoolOf(t, small_class(pc[t].n))], pc[t].i)])

\* std::lock_guard lock(init_mutex): the thread waits while the mutex is
\* held, by itself included
Lock(t) ==
    /\ ~crashed /\ pc[t].at = "lock"
    /\ init_mutex = {}
    /\ init_mutex' = {t}
    /\ pc' = [pc EXCEPT ![t].at = "check"]
    /\ UNCHANGED <<tiny_pools_, pools, thread_cache_, large_cache, bitmaps, mem, maps, clock,
                   crashed, live, freed, trace, steps, other>>

\* tiny_pools_[size_class] = new tiny_pool(), then return allocate(size);
\* `page` is what operator new returns, NULL for the std::bad_alloc caught
Created(t, page) ==
    IF page = NULL
    THEN Goes(t, [pc[t] EXCEPT !.at = "return", !.ret = NULL])
    ELSE /\ MemoryOf(NewPool(State, page))
         /\ steps' = steps
         /\ init_mutex' = init_mutex
         /\ ThreadKeeps(t, small_class(pc[t].n), page, NULL)
         /\ pc' = [pc EXCEPT ![t] = [@ EXCEPT !.at = "probe", !.again = TRUE]]

\* if (!tiny_pools_[size_class]) { ... } return nullptr;
Check(t) ==
    /\ ~crashed /\ pc[t].at = "check"
    /\ IF TinyPoolOf(t, small_class(pc[t].n)) = NULL
       THEN \E page \in PageChoices(State) : Created(t, page)
       ELSE Goes(t, [pc[t] EXCEPT !.at = "return", !.ret = NULL])

\* a lock_guard that never unlocks
kept_locked(holders, t) == holders

\* what the destructor of the lock_guard of thread t leaves of the holders
release(holders, t) == holders \ {t}

\* allocate returns; the lock_guard of every frame that holds one is destroyed
Return(t) ==
    /\ ~crashed /\ pc[t].at = "return"
    /\ init_mutex' = release(init_mutex, t)
    /\ pc' = [pc EXCEPT ![t].at = "idle"]
    /\ ThreadKeeps(t, small_class(pc[t].n), TinyPoolOf(t, small_class(pc[t].n)), pc[t].ret)
    /\ steps' = steps + 1
    /\ UNCHANGED <<pools, thread_cache_, large_cache, bitmaps, mem, maps, clock, crashed,
                   freed, trace>>

\* a statement of thread t inside allocate
Step(t) == Probe(t) \/ Load(t) \/ Cas(t) \/ Lock(t) \/ Check(t) \/ Return(t)

NextLock == \E t \in Threads : Enter(t) \/ Step(t)

SpecLock == Init /\ [][NextLock]_vars

(* ------------------------------------------------------------------------ *)
(* The thread cache on its own: put and get on two classes.  The pointer    *)
(* put is the address of the line numbered by the depth it is put at, so    *)
(* the pointers in one class are all different.                             *)
(* ------------------------------------------------------------------------ *)
MaxStackSteps == 35
StackClasses == {8, 9}
\* the second class is put to three times at most
StackRoom(c) == c = 8 \/ Len(thread_cache_[c]) < 3

\* the pointer put next in class c
StackPointer(c) == HeapBase + (Len(thread_cache_[c]) + 1) * CACHE_LINE_SIZE

\* r: the result of put or get recorded as `call`
StackCalled(r, call) ==
    /\ Commit(r.s)
    /\ UNCHANGED <<live, freed>>
    /\ Record(call)

\* r: what thread_cache_.put(ptr, c) returned
PutCalled(c, ptr, r) == StackCalled(r, [op |-> "put", cls |-> c, ptr |-> ptr, ok |-> r.ok])

\* r: what thread_cache_.get(c) returned
GetCalled(c, r) == StackCalled(r, [op |-> "get", cls |-> c, ptr |-> r.ptr, ok |-> r.ptr # NULL])

StackPut ==
    /\ steps < MaxStackSteps
    /\ \E c \in StackClasses :
          /\ StackRoom(c)
          /\ PutCalled(c, StackPointer(c),
                       thread_cache_put(State, StackPointer(c), c))

StackGet ==
    /\ steps < MaxStackSteps
    /\ \E c \in StackClasses : GetCalled(c, thread_cache_get(State, c))

NextStack == StackPut \/ StackGet

SpecStack == Init /\ [][NextStack]_vars

(* ------------------------------------------------------------------------ *)
(* The pool manager on its own: allocate and deallocate of class 9.  `live`  *)
(* holds one record per block handed out and not given back: its pointer and *)
(* how many holders the pointer had when it was handed out.  The blocks      *)
(* given back are those at the first slot of the second heap page.           *)
(* ------------------------------------------------------------------------ *)
MaxPoolSteps == 70
PoolClasses == {9}
PoolFrees == {HeapBase + PG_SIZE + SIZEOF_BITMAP}

Holders(ptr) == {h \in live : h.ptr = ptr}

\* r: what pool_manager_.allocate(cls) returned
PoolAllocated(cls, r) ==
    /\ Commit(r.s)
    /\ live' = IF r.ptr = NULL THEN live
               ELSE live \cup {[ptr |-> r.ptr, nth |-> Cardinality(Holders(r.ptr)) + 1]}
    /\ UNCHANGED freed
    /\ Record([op |-> "pool_allocate", cls |-> cls, ptr |-> r.ptr])

\* s: the state after pool_manager_.deallocate(h.ptr, cls)
PoolDeallocated(cls, h, s) ==
    /\ Commit(s)
    /\ live' = live \ {h}
    /\ UNCHANGED freed
    /\ Record([op |-> "pool_deallocate", cls |-> cls, ptr |-> h.ptr])

PoolAllocate ==
    /\ ~crashed /\ steps < MaxPoolSteps
    /\ \E cls \in PoolClasses, page \in PageChoices(State) :
          PoolAllocated(cls, pool_manager_allocate(State, cls, page))

PoolDeallocate ==
    /\ ~crashed /\ steps < MaxPoolSteps
    /\ \E cls \in PoolClasses, h \in live :
          /\ h.ptr \in PoolFrees
          /\ h.nth = Cardinality(Holders(h.ptr))
          /\ PoolDeallocated(cls, h, pool_manager_deallocate(State, h.ptr, cls))

NextPools == PoolAllocate \/ PoolDeallocate

SpecPools == Init /\ [][NextPools]_vars

(* ------------------------------------------------------------------------ *)
(* find_free_block called by two threads on one bitmap, statement by        *)
(* statement: the bitmap of the page at HeapBase, first used by one thread  *)
(* alone (whole calls), then by both at once.  pc[t].got keeps the indices  *)
(* thread t was returned.                                                   *)
(* ------------------------------------------------------------------------ *)
MaxFindCalls == 2
MaxFindFills == 65
FindSizes == {U(8)}

\* the state of thread t and of the shared bitmap after a step
FindGoes(t, next, bitmap) ==
    /\ pc' = [pc EXCEPT ![t] = next]
    /\ bitmaps' = Put(bitmaps, HeapBase, bitmap)
    /\ UNCHANGED <<tiny_pools_, pools, thread_cache_, large_cache, mem, maps, clock, crashed,
                   live, freed, trace, steps, other, init_mutex>>

\* bitmap(): every word ~0ULL
FindSetup ==
    /\ HeapBase \notin DOMAIN bitmaps
    /\ FindGoes(0, pc[0], NewBitmap)

\* r: what find_free_block returned to thread 0, no other thread running
FindDone(r) ==
    FindGoes(0, [pc[0] EXCEPT !.got = IF r.index # NPOS THEN @ \cup {r.index} ELSE @], r.bitmap)

\* a whole call by thread 0 before the bitmap is shared
FindWhole ==
    /\ HeapBase \in DOMAIN bitmaps
    /\ pc[0].calls = 0 /\ pc[1].calls = 0
    /\ Cardinality(bitmaps[HeapBase]) < MaxFindFills
    /\ \E n \in FindSizes : FindDone(find_free_block(bitmaps[HeapBase], n))

\* thread t calls find_free_block(n)
FindEnter(t) ==
    /\ HeapBase \in DOMAIN bitmaps
    /\ pc[t].at = "idle" /\ pc[t].calls < MaxFindCalls
    /\ \E n \in FindSizes :
          FindGoes(t, [pc[t] EXCEPT !.at = "fload", !.n = n, !.calls = @ + 1, !.i = 0,
                                    !.ret = NULL],
                   bitmaps[HeapBase])

\* for (i ...) { if ((i & align_mask) != 0) continue; expected = words[i].load();
\* past the last word: return ~0
FindLoad(t) ==
    /\ pc[t].at = "fload"
    /\ FindGoes(t,
                IF pc[t].i >= words_per_bitmap
                THEN [pc[t] EXCEPT !.at = "idle", !.ret = NPOS]
                ELSE IF BitAnd(pc[t].i,
                               (get_alignment_for_size(pc[t].n) \div bits_per_word) - 1) # 0
                THEN [pc[t] EXCEPT !.i = @ + 1]
                ELSE [pc[t] EXCEPT !.at = "fcas",
                                   !.expected = WordFreeBits(bitmaps[HeapBase], pc[t].i)],
                bitmaps[HeapBase])

\* the compare-exchange of thread t succeeded: the bit is cleared and the
\* index returned
FindClaimed(t, r) ==
    FindGoes(t, [pc[t] EXCEPT !.at = "idle", !.ret = r.index, !.got = @ \cup {r.index}],
             r.bitmap)

\* while (expected != 0) { bit = ctz(expected); compare_exchange_weak(...) }
FindCas(t) ==
    /\ pc[t].at = "fcas"
    /\ IF pc[t].expected = {}
       THEN FindGoes(t, [pc[t] EXCEPT !.at = "fload", !.i = @ + 1], bitmaps[HeapBase])
       ELSE IF cas_succeeds(WordFreeBits(bitmaps[HeapBase], pc[t].i), pc[t].expected)
       THEN FindClaimed(t, claim_block(bitmaps[HeapBase],
                                       pc[t].i * bits_per_word + MinOf(pc[t].expected)))
       ELSE FindGoes(t, [pc[t] EXCEPT !.expected = WordFreeBits(bitmaps[HeapBase], pc[t].i)],
                     bitmaps[HeapBase])

NextFind == FindSetup \/ FindWhole \/ \E t \in Threads : FindEnter(t) \/ FindLoad(t) \/ FindCas(t)

SpecFind == Init /\ [][NextFind]_vars

\* the scheduler runs every thread that can take a step
FairLock == SpecLock /\ \A t \in Threads : WF_vars(Step(t))

(* ------------------------------------------------------------------------ *)
(* Properties                                                               *)
(* ------------------------------------------------------------------------ *)
Last == trace[Len(trace)]
Made(op) == Len(trace) > 0 /\ Last.op = op

\* the call made k calls before the last one
Before(k) == trace[Len(trace) - k]

\* the last three calls were p = allocate(n), deallocate(p), allocate(n)
RoundTrip ==
    /\ Len(trace) >= 3
    /\ Before(2).op = "allocate" /\ Before(2).ret # NULL
    /\ Before(1).op = "deallocate" /\ Before(1).ptr = Before(2).ret
    /\ Last.op = "allocate" /\ Last.n = Before(2).n

\* the last two calls were deallocate(p), deallocate(p), for a p the client
\* was given
DoubleFree ==
    /\ Len(trace) >= 2
    /\ Last.op = "deallocate" /\ Last.ptr # NULL
    /\ Before(1).op = "deallocate"
    /\ Before(1).ptr = Last.ptr
    /\ Before(1).issued

\* the end of the mapping that holds ptr
MappingEnd(s, ptr) ==
    IF \E m \in s.maps : m.base <= ptr /\ ptr < m.base + m.len
    THEN LET m == CHOOSE m \in s.maps : m.base <= ptr /\ ptr < m.base + m.len
         IN  m.base + m.len
    ELSE ptr

\* the bytes from ptr to the end of the slot or mapping of a block of n bytes
UsableCapacity(s, ptr, n) ==
    IF U64Le(n, U(TINY_LARGE_THRESHOLD))
    THEN tiny_slot_size(small_class(n)) - SIZEOF_HEADER
    ELSE IF U64Le(U(PG_SIZE), n) THEN MappingEnd(s, ptr) - ptr
    ELSE IF U64Le(n, U(SMALL_LARGE_THRESHOLD))
    THEN size_classes[small_class(n)].slot_size - SIZEOF_HEADER
    ELSE size_classes[medium_class(n)].slot_size - SIZEOF_HEADER

\* the pools the class of n holds
PoolsOf(s, n) ==
    IF U64Le(n, U(TINY_LARGE_THRESHOLD))
    THEN (IF s.tiny_pools_[small_class(n)] # NULL THEN 1 ELSE 0)
    ELSE IF U64Le(U(PG_SIZE), n) THEN 0
    ELSE IF U64Le(n, U(SMALL_LARGE_THRESHOLD)) THEN Len(s.pools[small_class(n)])
    ELSE Len(s.pools[medium_class(n)])

\* no pointer is held twice by the large-block cache or by a thread cache
NoDoubleRecord ==
    /\ \A b1, b2 \in 0..(NUM_BUCKETS - 1), i1, i2 \in 0..(BUCKET_SIZE - 1) :
          (/\ <<b1, i1>> # <<b2, i2>>
           /\ large_cache.buckets[b1].entries[i1].ptr # NULL)
          => large_cache.buckets[b1].entries[i1].ptr # large_cache.buckets[b2].entries[i2].ptr
    /\ \A c \in 0..(SIZE_CLASSES - 1) : \A i, j \in 1..Len(thread_cache_[c]) :
          i # j => thread_cache_[c][i] # thread_cache_[c][j]

\* C1: allocate never returns a pointer the client still holds, one it was
\* given and has not passed to deallocate
C1_NoLiveAddressTwice == Made("allocate") => ~Last.dup

\* C2: after p = allocate(n) and deallocate(p), the next allocate(n) succeeds
\* and adds neither a pool nor a mapping (the OS not refusing, the process
\* still running)
C2_ReuseWithoutGrowth ==
    (RoundTrip /\ ~Last.refused /\ ~crashed) => (Last.ret # NULL /\ ~Last.grew)

\* C3: the block of a successful allocate(n) has at least n bytes from the
\* returned pointer to the end of its slot or mapping
C3_CapacityCoversRequest ==
    (Made("allocate") /\ Last.ret # NULL)
    => Val(Last.n) <= UsableCapacity(State, Last.ret, Last.n)

\* C4: a pointer returned by allocate(n), 1 <= n <= 2^47, is 64-byte aligned
\* and block_header::is_aligned holds for it
C4_ReturnedPointerPassesGuard ==
    (Made("allocate") /\ Last.ret # NULL)
    => (Last.ret % CACHE_LINE_SIZE = 0 /\ is_aligned(State, Last.ret))

\* C5: allocate(n), 1 <= n <= 2^47, returns null to a running process only
\* when the OS refuses memory or the class of n holds MAX_POOLS pools
C5_NullOnlyWhenRefusedOrFull ==
    (/\ Made("allocate")
     /\ Last.n # ZERO64 /\ U64Le(Last.n, POW47)
     /\ Last.ret = NULL /\ ~crashed)
    => (Last.refused \/ PoolsOf(State, Last.n) >= MAX_POOLS)

\* C6: allocate(0) and allocate(n) with n > 2^47 return null and leave the
\* allocator as it was
C6_InvalidSizeRejected ==
    (Made("allocate") /\ (Last.n = ZERO64 \/ U64Lt(POW47, Last.n)))
    => (Last.ret = NULL /\ Last.same)

\* an allocator that holds pools is asked for more than 2^47 bytes
C6_Witness ==
    /\ Made("allocate") /\ U64Lt(POW47, Last.n)
    /\ DOMAIN bitmaps # {} /\ live # {}

\* C7: deallocate(null) changes nothing; the second of deallocate(p),
\* deallocate(p), p a pointer the client was given, changes nothing, and no
\* cache holds a pointer twice
C7_DoubleFreeIsNoOp ==
    /\ (Made("deallocate") /\ Last.ptr = NULL) => Last.same
    /\ DoubleFree => Last.same
    /\ NoDoubleRecord

\* p = allocate(n) of a large block, deallocate(p), deallocate(p)
C7_Witness ==
    /\ DoubleFree /\ Len(trace) >= 3
    /\ Before(2).op = "allocate" /\ Before(2).ret = Last.ptr
    /\ U64Le(U(PG_SIZE), Before(2).n)

\* C8: p = allocate(n), deallocate(p), q = allocate(n) for a tiny n (n <= 64)
\* gives q = p
C8_HotReuse ==
    (RoundTrip /\ U64Le(Last.n, U(TINY_LARGE_THRESHOLD)) /\ Last.ret # NULL)
    => Last.ret = Before(2).ret

C10_LargeCacheHit ==
    (RoundTrip /\ InCacheRange(Last.n) /\ Last.ret # NULL)
    => Last.ret = Before(2).ret


\* the last call was a large allocate that took no new mapping: the block
\* came out of the large-block cache
ServedFromCache ==
    /\ Made("allocate") /\ Last.ret # NULL
    /\ U64Le(U(PG_SIZE), Last.n) /\ ~Last.grew

\* the size the served block was cached under: deallocate hands
\* header->size() to cache_block, and allocate_large leaves the size alone
ServedSize == Val(size(HeaderAt(State, Last.ret - SIZEOF_HEADER)))

\* C11: a large request n served from the large-block cache gets a block
\* whose recorded size s satisfies n <= s <= 1.25 * n
C11_CachedBlockFitsRequest ==
    ServedFromCache => Val(Last.n) <= ServedSize /\ 4 * ServedSize <= 5 * Val(Last.n)

\* a request served by a cached block that is larger than the request
C11_Witness == ServedFromCache /\ Val(Last.n) < ServedSize


\* the buckets of the large-block cache
Buckets == DOMAIN large_cache.buckets
Entries(b) == large_cache.buckets[b].entries

\* C12: total_cached is at most 64 MiB (a negative total_cached stands for
\* the wrapped size_t), every bucket holds at most 4 pointers, and every
\* cached entry's size lies in [4 KiB, 16 MiB]
C12_CacheWithinLimits ==
    /\ 0 <= large_cache.total_cached /\ large_cache.total_cached <= MAX_CACHE_SIZE
    /\ \A b \in Buckets :
          /\ large_cache.buckets[b].count \in 0..BUCKET_SIZE
          /\ Cardinality({i \in DOMAIN Entries(b) : Entries(b)[i].ptr # NULL}) <= BUCKET_SIZE
          /\ \A i \in DOMAIN Entries(b) :
                Entries(b)[i].ptr # NULL =>
                    MIN_CACHE_BLOCK <= Entries(b)[i].size /\ Entries(b)[i].size <= MAX_CACHE_BLOCK

\* cache_block found its bucket full and put the block in place of entry 0
C12_Witness ==
    /\ Made("cache_block")
    /\ \E b \in Buckets :
          /\ large_cache.buckets[b].count = BUCKET_SIZE
          /\ Entries(b)[0].ptr = Last.ptr
          /\ \A i \in DOMAIN Entries(b) : Entries(b)[i].ptr # NULL


\* the call a step makes, and whether the step is a call of op
NewCall == trace'[Len(trace')]
Calls(op) == steps' = steps + 1 /\ NewCall.op = op

\* the call returned ret and left the allocator in the state t
SameOutcome(r, ret, t) == r.ptr = ret /\ r.s = t

\* some allocate(n) from the state before the step returns what the step
\* returned and leaves the allocator as the step left it
AsAllocate(n, ret) ==
    \E page \in PageChoices(State), slot \in SlotChoices(State) :
        SameOutcome(allocate(State, n, page, slot), ret, State')

\* deallocate(ptr) from the state before the step leaves the allocator as
\* the step left it
AsDeallocate(ptr) == deallocate(State, ptr) = State'

\* C13: reallocate(null, n) returns what allocate(n) returns and leaves the
\* allocator as allocate(n) leaves it; reallocate(p, 0) for a block p the
\* client holds returns null and leaves the allocator as deallocate(p) does
C13_ReallocateEdgeCases ==
    [][Calls("reallocate") =>
          /\ NewCall.ptr = NULL => AsAllocate(NewCall.n, NewCall.ret)
          /\ (NewCall.ptr \in live /\ NewCall.n = ZERO64) =>
                 NewCall.ret = NULL /\ AsDeallocate(NewCall.ptr)]_vars

\* p = reallocate(null, n) gave a block and reallocate(p, 0) followed
C13_Witness ==
    /\ Len(trace) >= 2
    /\ Before(1).op = "reallocate" /\ Before(1).ptr = NULL /\ Before(1).ret # NULL
    /\ Last.op = "reallocate" /\ Last.ptr = Before(1).ret /\ Last.n = ZERO64


\* the last two calls were p = allocate(n0), which gave a block the client
\* did not hold already, and reallocate(p, n) with n > 0
ResizedFresh ==
    /\ Len(trace) >= 2 /\ ~crashed
    /\ Before(1).op = "allocate" /\ Before(1).ret # NULL /\ ~Before(1).dup
    /\ Last.op = "reallocate" /\ Last.ptr = Before(1).ret /\ Last.n # ZERO64

\* the header of the block the last call was given
GivenHeader == HeaderAt(State, Last.ptr - SIZEOF_HEADER)

\* C14: reallocate(p, n) of a tiny, small or medium block p with
\* 0 < n <= the capacity of p's class returns p and changes nothing
C14_InPlaceWithinClass ==
    (ResizedFresh /\ fits_in_place(GivenHeader, Last.n)) =>
        Last.ret = Last.ptr /\ Last.same


\* the last two calls were p = allocate(n0) with n0 <= 64 and reallocate(p, n)
ResizedTiny == ResizedFresh /\ U64Le(Before(1).n, U(TINY_LARGE_THRESHOLD))

\* 8 * (c + 1) for the tiny class c = (n0 - 1) >> 3 of a request of n0 bytes
TinyClassCapacity(n0) == 8 * (((Val(n0) - 1) \div 8) + 1)

Moves ==
    /\ Calls("reallocate") /\ ~crashed'
    /\ NewCall.ptr \in live
    /\ NewCall.ret # NULL /\ NewCall.ret # NewCall.ptr

\* min(old_size, n), old_size read from the header before the step
CopyLength ==
    MinOf({Val(size(HeaderAt(State, NewCall.ptr - SIZEOF_HEADER))), Val(NewCall.n)})

\* the lines of a range of len bytes, as offsets from its start
LineOffsets(len) == {CACHE_LINE_SIZE * k : k \in 0..((len - 1) \div CACHE_LINE_SIZE)}

\* storing the first len bytes that src held before the step over dst after
\* the step changes nothing: dst holds those bytes
HoldsBytesOf(dst, src, len) ==
    \A off \in LineOffsets(len) :
        StoredLine(State', dst + off, LineAt(State, src + off), dst + len)
            = LineAt(State', dst + off)

\* C16: when reallocate(p, n) returns q # p, the first min(old_size, n) bytes
\* at q are the bytes that were at p before the call
C16_MoveKeepsContents ==
    [][Moves => HoldsBytesOf(NewCall.ret, NewCall.ptr, CopyLength)]_vars

\* the client wrote into p, reallocate(p, n) returned another block, and what
\* the client wrote is at the start of that block
C16_Witness ==
    /\ Len(trace) >= 2 /\ ~crashed
    /\ Before(1).op = "store"
    /\ Last.op = "reallocate" /\ Last.ptr = Before(1).ptr
    /\ Last.ret # NULL /\ Last.ret # Last.ptr
    /\ HeaderAt(State, Last.ret) = ClientLine


\* some allocate of the size ptr's header records, made in the state s,
\* returns ptr: the block is available for reuse
Reusable(s, ptr) ==
    \E page \in PageChoices(s), slot \in SlotChoices(s) :
        allocate(s, size(HeaderAt(s, ptr - SIZEOF_HEADER)), page, slot).ptr = ptr

\* ptr's block went back to the allocator or to the OS
Freed(s, ptr) == ~Mapped(s, ptr - SIZEOF_HEADER) \/ Reusable(s, ptr)

\* the step is reallocate(p, n) with n > 0 of a block the client holds, and
\* it returned null
FailsToResize ==
    /\ Calls("reallocate") /\ ~crashed'
    /\ NewCall.ptr \in live /\ NewCall.n # ZERO64
    /\ NewCall.ret = NULL

\* the step left ptr's header, its first line and its availability alone
KeepsBlock(ptr) ==
    /\ HeaderAt(State', ptr - SIZEOF_HEADER) = HeaderAt(State, ptr - SIZEOF_HEADER)
    /\ LineAt(State', ptr) = LineAt(State, ptr)
    /\ Reusable(State', ptr) <=> Reusable(State, ptr)

\* C17: reallocate(p, n) with n > 0 that returns null leaves p allocated, its
\* header and contents unchanged; one that returns q # p has freed p: its
\* slot is available for reuse or its memory went back to the OS
C17_OldBlockFreedIffMoved ==
    [][/\ FailsToResize => KeepsBlock(NewCall.ptr)
       /\ Moves => Freed(State', NewCall.ptr)]_vars


\* clearing the first len bytes at ptr changes nothing: they are zero
ZeroBytesAt(ptr, len) ==
    \A off \in LineOffsets(len) :
        StoredLine(State, ptr + off, ZeroLine, ptr + len) = LineAt(State, ptr + off)

\* C18: a successful callocate(k, n) returns a block whose first k * n bytes
\* are zero, whatever the memory held before
C18_CallocateZeroes ==
    (Made("callocate") /\ Last.ret # NULL /\ ~crashed) => ZeroBytesAt(Last.ret, Val(Last.n))

\* callocate returned the memory of a block the client had just written into
C18_Witness ==
    /\ Len(trace) >= 2 /\ ~crashed
    /\ Before(1).op = "store"
    /\ Last.op = "callocate" /\ Last.ret = Before(1).ptr


\* the last call was callocate(k, n) with k = 0, n = 0 or k * n past SIZE_MAX
BadProduct ==
    /\ Made("callocate")
    /\ \/ Last.num = ZERO64
       \/ Last.each = ZERO64
       \/ U64Mul(Last.num, Last.each).ovf

\* C19: callocate(k, n) returns null and allocates nothing when k = 0, when
\* n = 0 and when k * n overflows size_t
C19_OverflowRejected == BadProduct => Last.ret = NULL /\ Last.same

\* callocate was given a product that wraps to a size allocate would serve
C19_Witness ==
    /\ BadProduct
    /\ U64Mul(Last.num, Last.each).ovf
    /\ Last.n = U(32)


\* the pointers the large-block cache holds, in any entry of any bucket
CachedPointers(s) ==
    {s.large_cache.buckets[b].entries[i].ptr :
        b \in 0..(NUM_BUCKETS - 1), i \in 0..(BUCKET_SIZE - 1)} \ {NULL}

PageOf(ptr) == ptr - (ptr % PG_SIZE)

\* ptr's memory is still the allocator's: the pool of its page exists, or a
\* mapping holds it
Backed(s, ptr) ==
    \/ PageOf(ptr) \in DOMAIN s.bitmaps
    \/ \E m \in s.maps : m.base <= ptr /\ ptr < m.base + m.len

\* C21: cleanup() releases no pool that holds an allocated block: every block
\* the client holds is still backed by its pool's memory after cleanup()
C21_CleanupKeepsLiveBlocks ==
    [][(Calls("cleanup") /\ ~crashed') =>
          \A ptr \in live : Backed(State, ptr) => Backed(State', ptr)]_vars


\* the pool of class c at base b holds the block at ptr in one of its slots
SlotOf(b, c, ptr) ==
    /\ size_classes[c].slot_size > 0
    /\ ptr - SIZEOF_HEADER >= b + SIZEOF_BITMAP
    /\ (ptr - SIZEOF_HEADER - (b + SIZEOF_BITMAP)) % size_classes[c].slot_size = 0

\* p and q are medium blocks in consecutive slots of one pool of s, p the lower
Adjacent(s, p, q) ==
    \E c \in 8..(SIZE_CLASSES - 1) : \E i \in 1..Len(s.pools[c]) :
        /\ SlotOf(s.pools[c][i].p, c, p)
        /\ q = p + size_classes[c].slot_size

\* the thread cache of s holds ptr
InThreadCache(s, ptr) ==
    \E c \in 0..(SIZE_CLASSES - 1) : \E k \in 1..Len(s.thread_cache_[c]) :
        s.thread_cache_[c][k] = ptr

\* the sizes of the blocks at p and q plus one header
UnionSize(s, p, q) ==
    U64Add(U64Add(size(HeaderAt(s, p - SIZEOF_HEADER)), size(HeaderAt(s, q - SIZEOF_HEADER))),
           U(SIZEOF_HEADER))

\* the block at p is one free block of size n
OneFreeBlock(s, p, n) ==
    /\ is_free(HeaderAt(s, p - SIZEOF_HEADER))
    /\ size(HeaderAt(s, p - SIZEOF_HEADER)) = n

\* the call just made is deallocate of the block the client held at one of p
\* and q, the other having been given back before
FreesSecondOf(p, q) ==
    /\ Calls("deallocate") /\ ~crashed'
    /\ Adjacent(State, p, q)
    /\ \/ NewCall.ptr = p /\ p \in live /\ q \in freed
       \/ NewCall.ptr = q /\ q \in live /\ p \in freed

\* C22: when the second of two physically adjacent medium blocks of one pool is
\* freed and the thread cache has taken neither, the two are one free block
\* whose size is the sum of their sizes plus one header
C22_AdjacentFreesCoalesce ==
    [][\A p \in live \cup freed : \A q \in live \cup freed :
          (/\ FreesSecondOf(p, q)
           /\ ~InThreadCache(State', p) /\ ~InThreadCache(State', q))
          => OneFreeBlock(State', p, UnionSize(State, p, q))]_vars


\* the pages of the pools of the thread that is not running
OtherPools ==
    ({other.tiny_pools_[c] : c \in 0..(TINY_CLASSES - 1)} \ {NULL})
        \cup UNION {{other.pools[c][i].p : i \in 1..Len(other.pools[c])} :
                       c \in 0..(SIZE_CLASSES - 1)}

\* the pools of the other thread are as they were: their bitmaps and the
\* headers of their blocks
KeepsOtherPools ==
    /\ \A b \in OtherPools : b \in DOMAIN bitmaps' /\ bitmaps'[b] = bitmaps[b]
    /\ \A a \in DOMAIN mem : PageOf(a) \in OtherPools => HeaderAt(State', a) = mem[a]

\* the thread_local objects of the other thread are as they were
KeepsOtherObjects ==
    /\ other'.thread_cache_ = other.thread_cache_
    /\ other'.pools = other.pools
    /\ other'.tiny_pools_ = other.tiny_pools_
    /\ other'.large_cache = other.large_cache

\* no address is held by both threads
NoSharedAddress == live \cap other.live = {}

\* C23: thread isolation: a call by one thread changes neither the thread
\* cache, pool table, tiny-pool table and large-block cache of the other thread
\* nor its pools, and no address is live in both threads at the same time
C23_ThreadIsolation ==
    /\ [][steps' = steps + 1 => KeepsOtherObjects /\ KeepsOtherPools]_vars
    /\ []NoSharedAddress


\* thread t is inside a call of allocate
InAllocate(t) == pc[t].at # "idle"

MagicDisjointFromFlags ==
    BitAnd(MAGIC_MASK_A, FREE_FLAG_A + MMAP_FLAG_A + COALESCED_FLAG_A) = 0

\* the header reads back what init was given
ReadsBack(h, call) ==
    /\ is_valid(h)
    /\ size(h) = call.n
    /\ size_class(h) = call.cls
    /\ is_free(h) = call.flag
    /\ ~is_memory_mapped(h)
    /\ ~is_coalesced(h)

\* C25: header round trip: after init(size, class, free) with size <= 2^47 the
\* header is valid, reads back the size, the class and the free flag given, is
\* neither memory-mapped nor coalesced, and the magic nibble shares no bit with
\* the three flags
C25_HeaderRoundTrip ==
    (Made("init") /\ U64Le(Last.n, POW47)) =>
        ReadsBack(Header, Last) /\ MagicDisjointFromFlags


\* what the accessors of the header h return
Reads(h) ==
    [size |-> size(h), size_class |-> size_class(h), is_free |-> is_free(h),
     is_memory_mapped |-> is_memory_mapped(h), is_coalesced |-> is_coalesced(h),
     is_valid |-> is_valid(h)]

\* the predicate each setter is for
Setters ==
    [set_free |-> "is_free", set_memory_mapped |-> "is_memory_mapped",
     set_coalesced |-> "is_coalesced"]

\* the call just made is a flag setter applied to a valid header
SetsFlagOfValid ==
    /\ steps' = steps + 1
    /\ NewCall.op \in DOMAIN Setters
    /\ is_valid(Header)

\* C26: on a valid header, set_free(b), set_memory_mapped(b) and set_coalesced(b)
\* make their own predicate b and leave size(), size_class(), the other two
\* flags and is_valid() as they were
C26_SetterChangesOwnFlagOnly ==
    [][SetsFlagOfValid =>
          Reads(HeaderAt(State', HeapBase))
              = [Reads(Header) EXCEPT ![Setters[NewCall.op]] = NewCall.flag]]_vars


\* the class the header of a block of n bytes is to record
HeaderClass(n) ==
    IF U64Le(U(PG_SIZE), n) THEN LARGE_CLASS
    ELSE IF U64Le(n, U(SMALL_LARGE_THRESHOLD)) THEN small_class(n)
    ELSE medium_class(n)

\* the header h is that of a block of n bytes in use
LiveHeader(h, n) ==
    /\ is_valid(h)
    /\ ~is_free(h)
    /\ size(h) = n
    /\ size_class(h) = HeaderClass(n)
    /\ U64Le(U(PG_SIZE), n) => is_memory_mapped(h)

\* the blocks the thread cache holds have their free flag set
CachedAreFree ==
    \A c \in 0..(SIZE_CLASSES - 1) : \A k \in 1..Len(thread_cache_[c]) :
        is_free(HeaderAt(State, thread_cache_[c][k] - SIZEOF_HEADER))

\* C27: the block allocate(n) returned has a valid header with the free flag
\* clear, size n and the class of n (255 and the memory-mapped flag for
\* n >= PG_SIZE); the blocks held by the thread cache have the free flag set
C27_LiveBlockHeader ==
    /\ (Made("allocate") /\ Last.ret # NULL /\ ~crashed) =>
           LiveHeader(HeaderAt(State, Last.ret - SIZEOF_HEADER), Last.n)
    /\ CachedAreFree


\* the table entry of class c covers a request of n bytes: the class below
\* is too small, this one is not, and its slot holds the header and n bytes
Covers(c, n) ==
    /\ c > 0 => size_classes[c - 1].size < n
    /\ n <= size_classes[c].size
    /\ size_classes[c].slot_size >= SIZEOF_HEADER + n

\* C28: for every request size n in 65..4095 the class allocate computes is
\* below 32 and its table entry covers n: the size of the class below is
\* less than n, n is at most the size of the class, and the slot holds the
\* header and n bytes
C28_ClassCoversRequest ==
    Made("request_class") =>
        Last.cls < SIZE_CLASSES /\ Covers(Last.cls, Val(Last.n))


\* the fields the table is to hold for a class of `sz` bytes
TableFields(sz) ==
    [size |-> sz,
     slot_size |-> ((sz + get_alignment_for_size(U(sz)) - 1)
                       \div get_alignment_for_size(U(sz))) * get_alignment_for_size(U(sz)),
     blocks |-> PG_SIZE \div (((sz + get_alignment_for_size(U(sz)) - 1)
                                  \div get_alignment_for_size(U(sz)))
                                 * get_alignment_for_size(U(sz))),
     slack |-> ((sz + get_alignment_for_size(U(sz)) - 1)
                   \div get_alignment_for_size(U(sz))) * get_alignment_for_size(U(sz)) - sz]

\* C29: the table entry of every class i in 0..31, as stored in its 16-bit
\* fields, has size 8 * 2^i, slot_size the size rounded up to its alignment
\* (so slot_size >= size > 0), blocks PG_SIZE / slot_size and slack
\* slot_size - size
C29_TableEntryAsStored ==
    Made("size_classes") =>
        /\ Last.entry = TableFields(8 * 2^Last.cls)
        /\ Last.entry.slot_size >= Last.entry.size
        /\ Last.entry.size > 0


\* the pools whose bitmap the call just made has changed, new pools included
PoolsUsed ==
    {b \in DOMAIN bitmaps' : b \notin DOMAIN bitmaps \/ bitmaps'[b] # bitmaps[b]}

\* the size of the slot of a block of n bytes
SlotSizeOf(n) ==
    IF U64Le(n, U(TINY_LARGE_THRESHOLD)) THEN tiny_slot_size(small_class(n))
    ELSE size_classes[request_class(n)].slot_size

\* the slot of `len` bytes at `slot` lies in the memory of the pool at b
SlotInside(b, slot, len) ==
    /\ b + SIZEOF_BITMAP <= slot
    /\ slot + len <= b + PG_SIZE

\* the call just made is an allocate that took a block from a pool
TakesSlot ==
    /\ Calls("allocate") /\ ~crashed'
    /\ NewCall.ret # NULL
    /\ U64Lt(NewCall.n, U(PG_SIZE))

\* no small or medium pool has more blocks in use than its class has per pool
WithinBlocksPerPool ==
    crashed \/ \A c \in TINY_CLASSES..(SIZE_CLASSES - 1) : \A i \in 1..Len(pools[c]) :
        /\ pools[c][i].used_blocks <= size_classes[c].blocks
        /\ Cardinality(bitmaps[pools[c][i].p]) <= size_classes[c].blocks

\* C30: the slot a tiny, small or medium pool hands out lies wholly inside the
\* memory of that pool, and no small or medium pool of class c has more than
\* blocks-per-pool(c) slots in use
C30_SlotsInsidePool ==
    /\ [][TakesSlot =>
             \A b \in PoolsUsed :
                 SlotInside(b, NewCall.ret - SIZEOF_HEADER, SlotSizeOf(NewCall.n))]_vars
    /\ []WithinBlocksPerPool


\* the blocks the client holds in the tiny pool at b
LiveIn(b) == {p \in live : b <= p /\ p < b + PG_SIZE}

\* the slot index of the block at p in the tiny pool of class c at b
TinyIndex(b, c, p) == (p - SIZEOF_HEADER - (b + SIZEOF_BITMAP)) \div tiny_slot_size(c)

\* the cleared bits of every tiny pool are the slots of the blocks in use
BitsMatchLive ==
    crashed \/ \A c \in 0..(TINY_CLASSES - 1) :
        tiny_pools_[c] # NULL =>
            bitmaps[tiny_pools_[c]] = {TinyIndex(tiny_pools_[c], c, p) : p \in LiveIn(tiny_pools_[c])}

\* the call just made is an allocate that returned null
AllocateFails == Calls("allocate") /\ ~crashed' /\ NewCall.ret = NULL

\* C31: in every tiny pool bit i is 0 exactly when slot i holds a live block
\* (so the cleared bits are as many as the live blocks and the bitmap is
\* completely free once all are freed), and an allocate that returns null
\* leaves the bitmaps unchanged
C31_TinyBitmapMatchesLive ==
    /\ []BitsMatchLive
    /\ [][AllocateFails => bitmaps' = bitmaps]_vars


\* the shared bitmap: its cleared bits
Shared == IF HeapBase \in DOMAIN bitmaps THEN bitmaps[HeapBase] ELSE {}

\* no index went to both threads, and the cleared bits are the indices returned
ClaimsDisjoint ==
    /\ pc[0].got \cap pc[1].got = {}
    /\ Shared = pc[0].got \cup pc[1].got

\* thread t is returned the index k by the step
Returned(t, k) == k \notin pc[t].got /\ k \in pc'[t].got

\* C32: two threads in find_free_block on one bitmap never get the same index;
\* the bit of a returned index was set before and is cleared after, and no
\* other bit changes
C32_FindersNeverShareSlot ==
    /\ []ClaimsDisjoint
    /\ [][\A t \in Threads : \A k \in 0..(words_per_bitmap * bits_per_word - 1) :
             Returned(t, k) =>
                 /\ k \notin Shared
                 /\ bitmaps'[HeapBase] = Shared \cup {k}]_vars

\* a thread is about to exchange with an expected value the other thread has
\* made stale, and goes on to get another index
C32_Witness ==
    \E t \in Threads :
        /\ pc[t].at = "fcas"
        /\ pc[t].expected # {}
        /\ pc[t].expected # WordFreeBits(Shared, pc[t].i)
        /\ pc[1 - t].got # {}


\* the thread cache with class c replaced by the stack q
WithStack(c, q) == [thread_cache_ EXCEPT ![c] = q]

\* put(ptr, c) pushes when the class holds fewer than CACHE_SIZE pointers, and
\* otherwise fails and changes nothing
PutPushes(c, ptr, ok) ==
    IF Len(thread_cache_[c]) < CACHE_SIZE
    THEN ok /\ thread_cache_' = WithStack(c, Append(thread_cache_[c], ptr))
    ELSE ~ok /\ thread_cache_' = thread_cache_

\* get(c) pops the pointer put last, or returns null on an empty class
GetPops(c, ptr) ==
    IF Len(thread_cache_[c]) = 0
    THEN ptr = NULL /\ thread_cache_' = thread_cache_
    ELSE /\ ptr = thread_cache_[c][Len(thread_cache_[c])]
         /\ thread_cache_' = WithStack(c, SubSeq(thread_cache_[c], 1, Len(thread_cache_[c]) - 1))

\* the count of every class is within 0..CACHE_SIZE
CountsInRange == \A c \in DOMAIN thread_cache_ : Len(thread_cache_[c]) <= CACHE_SIZE

\* C33: per class the thread cache is a LIFO stack of capacity 32: put pushes
\* iff the class holds fewer than 32 pointers and otherwise returns false and
\* changes nothing, get pops the pointer put last or returns null when the
\* class is empty, the count stays in 0..32, and no other class is affected
C33_ThreadCacheIsBoundedStack ==
    /\ []CountsInRange
    /\ [][/\ Calls("put") => PutPushes(NewCall.cls, NewCall.ptr, NewCall.ok)
          /\ Calls("get") => GetPops(NewCall.cls, NewCall.ptr)]_vars

\* a put was refused by a full class while the other class holds pointers
C33_Witness ==
    /\ Made("put") /\ ~Last.ok
    /\ Len(thread_cache_[8]) = CACHE_SIZE
    /\ Len(thread_cache_[9]) > 0


\* pool_count <= MAX_POOLS
PoolCountBounded == \A c \in DOMAIN pools : Len(pools[c]) <= MAX_POOLS

\* the entries below pool_count hold distinct non-null pools
PoolsDistinct ==
    \A c \in DOMAIN pools : \A i, j \in 1..Len(pools[c]) :
        /\ pools[c][i].p # NULL
        /\ i # j => pools[c][i].p # pools[c][j].p

\* used_blocks is at least 1 and is the number of cleared bits of the pool
UsedBlocksCountsBits ==
    \A c \in DOMAIN pools : \A i \in 1..Len(pools[c]) :
        /\ pools[c][i].used_blocks >= 1
        /\ pools[c][i].p \in DOMAIN bitmaps
        /\ pools[c][i].used_blocks = Cardinality(bitmaps[pools[c][i].p])

\* the entries of class c whose page holds ptr
OwnersOf(c, ptr) ==
    {i \in 1..Len(pools[c]) : ptr >= pools[c][i].p /\ ptr < pools[c][i].p + PG_SIZE}

\* entry i of class c is removed: its pool is destroyed and the last entry
\* takes its place
EntryRemoved(c, i) ==
    /\ pools[c][i].p \notin DOMAIN bitmaps'
    /\ Len(pools'[c]) = Len(pools[c]) - 1
    /\ \A j \in 1..Len(pools'[c]) :
          pools'[c][j] = IF j = i THEN pools[c][Len(pools[c])] ELSE pools[c][j]

\* a deallocate that takes the last block of a pool removes its entry
EmptiedPoolRemoved ==
    Calls("pool_deallocate") =>
        \A i \in OwnersOf(NewCall.cls, NewCall.ptr) :
            (i = MinOf(OwnersOf(NewCall.cls, NewCall.ptr)) /\ pools[NewCall.cls][i].used_blocks = 1)
                => EntryRemoved(NewCall.cls, i)

PoolEntriesSound == crashed \/ (PoolCountBounded /\ PoolsDistinct /\ UsedBlocksCountsBits)

\* C34: for every class pool_count <= 8, the entries below pool_count hold
\* distinct non-null pools, each entry's used_blocks is at least 1 and equals
\* the number of cleared bits of its pool's bitmap, and a pool whose
\* used_blocks reaches 0 is destroyed with the last entry moved into its place
C34_PoolEntriesMatchBitmaps == []PoolEntriesSound /\ [][EmptiedPoolRemoved]_vars


\* the pointers bucket b of cache c holds
HeldIn(c, b) == {i \in 0..(BUCKET_SIZE - 1) : c.buckets[b].entries[i].ptr # NULL}

\* the cache c holds ptr
Holds(c, ptr) == \E b \in 0..(NUM_BUCKETS - 1) : \E i \in HeldIn(c, b) : c.buckets[b].entries[i].ptr = ptr

\* a block of n bytes that the cache has to accept: n and the total are
\* within the limits and no bucket holds BUCKET_SIZE pointers
Acceptable(n) ==
    /\ InCacheRange(n)
    /\ large_cache.total_cached >= 0
    /\ large_cache.total_cached + Val(n) <= MAX_CACHE_SIZE
    /\ \A b \in 0..(NUM_BUCKETS - 1) : Cardinality(HeldIn(large_cache, b)) < BUCKET_SIZE

AcceptsAcceptable ==
    (Calls("cache_block") /\ Acceptable(NewCall.n)) => Holds(large_cache', NewCall.ptr)

RejectChangesNothing ==
    (Calls("cache_block") /\ ~Holds(large_cache', NewCall.ptr)) => large_cache' = large_cache

\* C35: cache_block(ptr, size) stores the block whenever 4 KiB <= size <=
\* 16 MiB, total_cached + size <= 64 MiB and the size's bucket holds fewer
\* than 4 pointers, after any earlier cache_block and get_cached_block calls,
\* and a rejected call leaves the cache unchanged
C35_CacheBlockAccepts == [][AcceptsAcceptable /\ RejectChangesNothing]_vars


\* bucket b holds BUCKET_SIZE pointers
BucketFull(b) == Cardinality(HeldIn(large_cache, b)) = BUCKET_SIZE

\* the entry of bucket b with the smallest last_use, the lowest index on ties
Victim(b) ==
    CHOOSE i \in 0..(BUCKET_SIZE - 1) :
        \A j \in 0..(BUCKET_SIZE - 1) :
            \/ large_cache.buckets[b].entries[i].last_use < large_cache.buckets[b].entries[j].last_use
            \/ /\ large_cache.buckets[b].entries[i].last_use = large_cache.buckets[b].entries[j].last_use
               /\ i <= j

\* entry v of bucket b now holds the block of the call, and nothing else of
\* the bucket changed
Replaced(b, v, ptr, n) ==
    /\ large_cache'.buckets[b].entries[v].ptr = ptr
    /\ large_cache'.buckets[b].entries[v].size = n
    /\ large_cache'.buckets[b].count = large_cache.buckets[b].count
    /\ \A j \in 0..(BUCKET_SIZE - 1) \ {v} :
          large_cache'.buckets[b].entries[j] = large_cache.buckets[b].entries[j]

\* cache_block(ptr, n) on the full bucket b
EvictsOldest(b, ptr, n) ==
    IF WithinRatio(n, large_cache.buckets[b].entries[Victim(b)].size)
    THEN Replaced(b, Victim(b), ptr, n)
    ELSE large_cache' = large_cache

\* C36: cache_block on a bucket that holds 4 pointers considers the entry
\* with the smallest last_use (the lowest index on ties); it replaces that
\* entry by the incoming block iff the incoming size <= 1.25 * the victim's
\* size, and otherwise leaves every entry, count and total_cached unchanged
C36_EvictionTakesOldest ==
    [][(/\ Calls("cache_block")
        /\ InCacheRange(NewCall.n)
        /\ get_bucket_index(Val(NewCall.n)) < NUM_BUCKETS
        /\ BucketFull(get_bucket_index(Val(NewCall.n))))
          => EvictsOldest(get_bucket_index(Val(NewCall.n)), NewCall.ptr, Val(NewCall.n))]_vars


\* the sizes of bucket b: [MIN_CACHE_BLOCK * 2^b, MIN_CACHE_BLOCK * 2^(b + 1))
InBucketRange(b, n) == MIN_CACHE_BLOCK * 2^b <= n /\ n < MIN_CACHE_BLOCK * 2^(b + 1)

\* every entry that holds a pointer has a size of its bucket's range
EntriesInRange ==
    \A b \in 0..(NUM_BUCKETS - 1) : \A i \in HeldIn(large_cache, b) :
        InBucketRange(b, large_cache.buckets[b].entries[i].size)

\* the size of the last cache_block call, when within the limits, has a bucket
SizeHasBucket ==
    (Made("cache_block") /\ InCacheRange(Last.n)) =>
        get_bucket_index(Val(Last.n)) \in 0..(NUM_BUCKETS - 1)

\* C37: every entry stored in large-cache bucket i (0 <= i < 8) has a size in
\* [4 KiB * 2^i, 4 KiB * 2^(i+1)), and every size in [4 KiB, 16 MiB] maps to
\* one of the 8 buckets
C37_BucketRanges == EntriesInRange /\ SizeHasBucket


\* for every header of the list with a successor, the successor's
\* prev_physical is that header
DoublyLinked(s) ==
    \A h \in Chain(s) :
        HeaderAt(s, h).next_physical # NULL =>
            HeaderAt(s, HeaderAt(s, h).next_physical).prev_physical = h

\* the neighbours of the header at h that are free
FreeNext(h) ==
    {a \in {HeaderAt(State, h).next_physical} : a # NULL /\ is_free(HeaderAt(State, a))}
FreePrev(h) ==
    {a \in {HeaderAt(State, h).prev_physical} : a # NULL /\ is_free(HeaderAt(State, a))}

\* the earliest of the header at h and its free neighbours
Survivor(h) == MinOf({h} \cup FreePrev(h))

\* the size of the blocks in S with a header's size for each but one
RECURSIVE Merged(_)
Merged(S) ==
    IF S = {} THEN 0 - SIZEOF_HEADER
    ELSE Val(size(HeaderAt(State, MinOf(S)))) + SIZEOF_HEADER + Merged(S \ {MinOf(S)})

\* try_coalesce on the free small or medium block at h absorbed its free
\* neighbours
Absorbs(h, ok) ==
    /\ ok = (FreeNext(h) \cup FreePrev(h) # {})
    /\ Val(size(HeaderAt(State', Survivor(h)))) = Merged({h} \cup FreeNext(h) \cup FreePrev(h))
    /\ size_class(HeaderAt(State', Survivor(h))) = size_class(HeaderAt(State, Survivor(h)))
    /\ DoublyLinked(State')
    /\ Chain(State') = Chain(State) \ (({h} \cup FreeNext(h) \cup FreePrev(h)) \ {Survivor(h)})

\* try_coalesce on the header at h
CoalesceAsClaimed(h, ok) ==
    IF is_memory_mapped(HeaderAt(State, h)) \/ size_class(HeaderAt(State, h)) < TINY_CLASSES
    THEN ~ok /\ mem' = mem
    ELSE is_free(HeaderAt(State, h)) => Absorbs(h, ok)

\* C38: try_coalesce on a free small/medium block absorbs each free physical
\* neighbour: the survivor is the earliest header, keeps its class and grows
\* by the size plus sizeof(block_header) of each absorbed neighbour, the list
\* stays consistently doubly linked and no absorbed header remains in it; on a
\* memory-mapped or tiny block it changes nothing and returns false
C38_CoalesceAbsorbsNeighbours ==
    [][(Calls("try_coalesce") /\ DoublyLinked(State))
          => CoalesceAsClaimed(NewCall.ptr, NewCall.ok)]_vars

\* try_coalesce folded a block and both its neighbours into the first of the
\* three, in a list of four
C38_Witness ==
    /\ Made("try_coalesce") /\ Last.ok /\ ~crashed
    /\ Cardinality(Chain(State)) = 2
    /\ Val(size(HeaderAt(State, ChainAt(0)))) = 64 + 128 + 192 + 2 * SIZEOF_HEADER


\* the entries of the large-block cache that hold ptr
EntriesHolding(ptr) ==
    {<<b, i>> \in (0..(NUM_BUCKETS - 1)) \X (0..(BUCKET_SIZE - 1)) :
        large_cache.buckets[b].entries[i].ptr = ptr}

\* a region still mapped is held by the client or by one cache entry, never
\* by both and never by nobody
MappedRegionsHeld ==
    \A m \in maps :
        \/ (m.base + SIZEOF_HEADER) \in live /\ EntriesHolding(m.base + SIZEOF_HEADER) = {}
        \/ (m.base + SIZEOF_HEADER) \notin live
               /\ Cardinality(EntriesHolding(m.base + SIZEOF_HEADER)) = 1

\* what the client or the cache holds is mapped
HeldRegionsMapped ==
    \A ptr \in live \cup CachedPointers(State) : \E m \in maps : m.base + SIZEOF_HEADER = ptr

\* a region is unmapped whole: every mapping starts where the OS placed it and
\* has the length its block was mapped with
UnmappedWhole ==
    \A m \in maps :
        /\ m.base \in FillSlots
        /\ m.len = LenVal(MapLength(size(HeaderAt(State, m.base))))

\* C39: every large region obtained from the OS is exactly one of: held by
\* the caller, held by exactly one large-cache entry, or unmapped; a block
\* displaced from a full bucket is unmapped rather than dropped, and a block
\* is unmapped with the length it was mapped with
C39_LargeRegionsAccounted ==
    crashed \/ (MappedRegionsHeld /\ HeldRegionsMapped /\ UnmappedWhole)


\* each bucket's count is the number of its entries that hold a pointer
CountIsHeld ==
    \A b \in 0..(NUM_BUCKETS - 1) :
        large_cache.buckets[b].count = Cardinality(HeldIn(large_cache, b))

\* every entry that holds a pointer is below its bucket's count
HeldBelowCount ==
    \A b \in 0..(NUM_BUCKETS - 1) : \A i \in HeldIn(large_cache, b) :
        i < large_cache.buckets[b].count

RECURSIVE HeldBytes(_)
\* the sizes of the entries E (pairs of bucket and index) added up
HeldBytes(E) ==
    IF E = {} THEN 0
    ELSE LET e == CHOOSE x \in E : TRUE
         IN  large_cache.buckets[e[1]].entries[e[2]].size + HeldBytes(E \ {e})

\* total_cached is the sum of the sizes of the entries that hold a pointer
TotalIsHeldBytes ==
    large_cache.total_cached =
        HeldBytes({e \in (0..(NUM_BUCKETS - 1)) \X (0..(BUCKET_SIZE - 1)) :
                      e[2] \in HeldIn(large_cache, e[1])})

\* C40: in every state reachable through cache_block, get_cached_block and
\* clear, each bucket's count equals the number of its entries holding a
\* pointer, every such entry sits at an index below count, and total_cached
\* equals the sum of the sizes of the entries holding a pointer
C40_CacheCountsConsistent ==
    crashed \/ (CountIsHeld /\ HeldBelowCount /\ TotalIsHeldBytes)

====
